---- MODULE Spec2Model ----
(***************************************************************************)
(* ScholarAI server: document ingestion (streaming extraction, chunking),  *)
(* the self-healing single-file store, and the upload request handler.     *)
(*                                                                         *)
(* Text is kept in run-length form so that the program's real constants    *)
(* (3000-character windows, 80,000-character ceiling, 5 MB store) can be   *)
(* used unchanged.  A string is a sequence of runs                         *)
(*      [c |-> "a",  lo |-> i, hi |-> j]   the letters numbered i..j, all  *)
(*                                         distinct, none of them blank    *)
(*      [c |-> "sp" | "lf" | "cr", lo |-> 1, hi |-> n]                     *)
(*                                         n spaces / line feeds /         *)
(*                                         carriage returns                *)
(* kept canonical (no empty run, adjacent runs never mergeable), so that   *)
(* equality of the run sequences is equality of the strings.               *)
(***************************************************************************)
EXTENDS Integers, Sequences, FiniteSets, TLC

\* ---------------------------------------------------------------- constants
MAX_CHARS_PER_CHUNK == 3000
CHUNK_OVERLAP == 200
MAX_CHUNKS_PER_DOC == 300
MAX_TEXT_PER_FILE == 80000
MAX_STORE_BYTES == 5 * 1024 * 1024
STREAM_HWM == 16 * 1024
MAX_CHUNKS_FOR_ASK == 800
EMBEDDING_BATCH_SIZE == 64

\* ------------------------------------------------------------------ strings
EmptyStr == << >>

Letters(lo, hi) == IF hi < lo THEN EmptyStr ELSE <<[c |-> "a", lo |-> lo, hi |-> hi]>>

Blanks(c, n) == IF n <= 0 THEN EmptyStr ELSE <<[c |-> c, lo |-> 1, hi |-> n]>>

IsWs(seg) == seg.c # "a"

SegLen(seg) == seg.hi - seg.lo + 1

RECURSIVE StrLen(_)
StrLen(s) == IF s = << >> THEN 0 ELSE SegLen(Head(s)) + StrLen(Tail(s))

\* s + t
Concat(s, t) ==
  IF s = << >> THEN t
  ELSE IF t = << >> THEN s
  ELSE LET a == s[Len(s)]
           b == t[1]
           front == SubSeq(s, 1, Len(s) - 1)
       IN IF a.c = "a" /\ b.c = "a" /\ a.hi + 1 = b.lo
            THEN front \o <<[c |-> "a", lo |-> a.lo, hi |-> b.hi]>> \o Tail(t)
          ELSE IF a.c # "a" /\ a.c = b.c
            THEN front \o <<[c |-> a.c, lo |-> 1, hi |-> a.hi + b.hi]>> \o Tail(t)
          ELSE s \o t

\* s.slice(n): s without its first n characters
RECURSIVE SliceFrom(_, _)
SliceFrom(s, n) ==
  IF n <= 0 \/ s = << >> THEN s
  ELSE LET h == Head(s) IN
       IF SegLen(h) <= n THEN SliceFrom(Tail(s), n - SegLen(h))
       ELSE IF h.c = "a" THEN <<[h EXCEPT !.lo = h.lo + n]>> \o Tail(s)
       ELSE <<[h EXCEPT !.hi = h.hi - n]>> \o Tail(s)

\* s.slice(0, n): the first n characters of s
RECURSIVE SliceTo(_, _)
SliceTo(s, n) ==
  IF n <= 0 \/ s = << >> THEN << >>
  ELSE LET h == Head(s) IN
       IF SegLen(h) <= n THEN <<h>> \o SliceTo(Tail(s), n - SegLen(h))
       ELSE IF h.c = "a" THEN <<[h EXCEPT !.hi = h.lo + n - 1]>>
       ELSE <<[h EXCEPT !.hi = n]>>

\* s.slice(a, b) for 0 <= a
Slice(s, a, b) == SliceTo(SliceFrom(s, a), b - a)

RECURSIVE TrimStart(_)
TrimStart(s) == IF s # << >> /\ IsWs(Head(s)) THEN TrimStart(Tail(s)) ELSE s

RECURSIVE TrimEnd(_)
TrimEnd(s) ==
  IF s # << >> /\ IsWs(s[Len(s)]) THEN TrimEnd(SubSeq(s, 1, Len(s) - 1)) ELSE s

\* s.trim()
Trim(s) == TrimEnd(TrimStart(s))

\* s.replace(/\r\n/g, '\n'): every carriage return directly followed by a
\* line feed is dropped
RECURSIVE ReplaceCRLF(_)
ReplaceCRLF(s) ==
  IF Len(s) < 2 THEN s
  ELSE IF s[1].c = "cr" /\ s[2].c = "lf"
         THEN Concat(Blanks("cr", s[1].hi - 1), ReplaceCRLF(Tail(s)))
       ELSE Concat(<<s[1]>>, ReplaceCRLF(Tail(s)))

Min(a, b) == IF a < b THEN a ELSE b

\* --------------------------------------------------- chunking (stream-friendly)
\* pushChunksFromBuffer(chunks, buffer): emits full windows while the buffer
\* holds one and the cap allows; the result is the new chunk list and the
\* new buffer.value
\* mutant: the window advances by a whole window, keeping no overlap
RECURSIVE pushChunksNoOverlap(_, _)
pushChunksNoOverlap(chunks, buffer) ==
  IF StrLen(buffer) >= MAX_CHARS_PER_CHUNK /\ Len(chunks) < MAX_CHUNKS_PER_DOC
    THEN LET slice == Trim(Slice(buffer, 0, MAX_CHARS_PER_CHUNK))
             pushed == IF slice # EmptyStr THEN Append(chunks, slice) ELSE chunks
         IN pushChunksNoOverlap(pushed, SliceFrom(buffer, MAX_CHARS_PER_CHUNK))
    ELSE [chunks |-> chunks, buffer |-> buffer]

\* mutant: the window is pushed as it is, neither trimmed nor tested
RECURSIVE pushChunksUntrimmed(_, _)
pushChunksUntrimmed(chunks, buffer) ==
  IF StrLen(buffer) >= MAX_CHARS_PER_CHUNK /\ Len(chunks) < MAX_CHUNKS_PER_DOC
    THEN pushChunksUntrimmed(Append(chunks, Slice(buffer, 0, MAX_CHARS_PER_CHUNK)),
                             SliceFrom(buffer, MAX_CHARS_PER_CHUNK - CHUNK_OVERLAP))
    ELSE [chunks |-> chunks, buffer |-> buffer]

RECURSIVE pushChunksFromBuffer(_, _)
pushChunksFromBuffer(chunks, buffer) ==
  IF StrLen(buffer) >= MAX_CHARS_PER_CHUNK /\ Len(chunks) < MAX_CHUNKS_PER_DOC
    THEN LET slice == Trim(Slice(buffer, 0, MAX_CHARS_PER_CHUNK))
             pushed == IF slice # EmptyStr THEN Append(chunks, slice) ELSE chunks
         IN pushChunksFromBuffer(pushed,
                                 SliceFrom(buffer, MAX_CHARS_PER_CHUNK - CHUNK_OVERLAP))
    ELSE [chunks |-> chunks, buffer |-> buffer]

\* The closure state of one streamReadableToChunks call; destroyed records
\* that rs.destroy() has been called.
StreamInitState ==
  [chunks |-> << >>, buf |-> EmptyStr, total |-> 0, ended |-> FALSE, destroyed |-> FALSE]

\* mutant: the piece is not cut to the remaining allowance
OnDataUncut(s, chunk) ==
  IF s.ended THEN s
  ELSE LET remain == MAX_TEXT_PER_FILE - s.total IN
       IF remain <= 0 \/ Len(s.chunks) >= MAX_CHUNKS_PER_DOC
         THEN [s EXCEPT !.ended = TRUE, !.destroyed = TRUE]
       ELSE LET piece == ReplaceCRLF(chunk)
                total == s.total + StrLen(piece)
                r == pushChunksFromBuffer(s.chunks, Concat(s.buf, piece))
                stop == Len(r.chunks) >= MAX_CHUNKS_PER_DOC \/ total >= MAX_TEXT_PER_FILE
            IN [chunks |-> r.chunks, buf |-> r.buffer, total |-> total,
                ended |-> stop, destroyed |-> stop]

\* rs.on('data', chunk)
OnData(s, chunk) ==
  IF s.ended THEN s
  ELSE LET remain == MAX_TEXT_PER_FILE - s.total IN
       IF remain <= 0 \/ Len(s.chunks) >= MAX_CHUNKS_PER_DOC
         THEN [s EXCEPT !.ended = TRUE, !.destroyed = TRUE]
       ELSE LET norm == ReplaceCRLF(chunk)
                piece == IF StrLen(norm) > remain THEN Slice(norm, 0, remain) ELSE norm
                total == s.total + StrLen(piece)
                r == pushChunksFromBuffer(s.chunks, Concat(s.buf, piece))
                stop == Len(r.chunks) >= MAX_CHUNKS_PER_DOC \/ total >= MAX_TEXT_PER_FILE
            IN [chunks |-> r.chunks, buf |-> r.buffer, total |-> total,
                ended |-> stop, destroyed |-> stop]

\* rs.on('close'): the chunk list the promise resolves with
OnClose(s) ==
  IF ~s.ended
    THEN LET tail == Trim(s.buf) IN
         IF tail # EmptyStr /\ Len(s.chunks) < MAX_CHUNKS_PER_DOC
           THEN [s EXCEPT !.chunks = Append(@, tail)]
           ELSE s
    ELSE s

\* A whole streamReadableToChunks run over a source delivered in pieces of n
\* characters, read until it is exhausted or destroyed.
RECURSIVE streamReadableToChunks(_, _, _)
streamReadableToChunks(s, rest, n) ==
  IF rest = EmptyStr \/ s.destroyed THEN OnClose(s).chunks
  ELSE streamReadableToChunks(OnData(s, SliceTo(rest, n)), SliceFrom(rest, n), n)

extractChunksFromTxtPath(text) == streamReadableToChunks(StreamInitState, text, STREAM_HWM)

RECURSIVE DocxLoop(_, _, _, _)
DocxLoop(text, i, chunks, buf) ==
  IF i < StrLen(text) /\ Len(chunks) < MAX_CHUNKS_PER_DOC
    THEN LET take == Min(MAX_CHARS_PER_CHUNK, StrLen(text) - i)
             r == pushChunksFromBuffer(chunks, Concat(buf, Slice(text, i, i + take)))
         IN DocxLoop(text, i + take, r.chunks, r.buffer)
    ELSE [chunks |-> chunks, buffer |-> buf]

\* value is the raw text the converter returns
extractChunksFromDocxPath(value) ==
  LET text == Slice(value, 0, MAX_TEXT_PER_FILE)
      r == DocxLoop(text, 0, << >>, EmptyStr)
      tail == Trim(r.buffer)
  IN IF tail # EmptyStr /\ Len(r.chunks) < MAX_CHUNKS_PER_DOC
       THEN Append(r.chunks, tail)
       ELSE r.chunks

\* bounds of the extraction model
SmallPiece == 7000
BigPiece == 65536
OverLen == 20000

\* ------------------------------------------------------------------- store
\* A file is [kind, docs, bytes]: kind "json" holds a serialized store whose
\* documents are docs; the other kinds hold no parseable store.
MissingFile == [kind |-> "missing", docs |-> << >>, bytes |-> 0]

Digits(n) == IF n < 10 THEN 1 ELSE IF n < 100 THEN 2 ELSE IF n < 1000 THEN 3 ELSE 4

\* length of a string inside JSON quotes: a line feed or carriage return is
\* written as a two-character escape
RECURSIVE JsonLen(_)
JsonLen(s) ==
  IF s = << >> THEN 0
  ELSE (IF Head(s).c \in {"lf", "cr"} THEN 2 ELSE 1) * SegLen(Head(s)) + JsonLen(Tail(s))

\* bytes a cached vector adds to a chunk of a store written by an older version
LegacyEmbeddingBytes == 400

RECURSIVE SumChunkBytes(_, _)
SumChunkBytes(chunks, i) ==
  IF i > Len(chunks) THEN 0
  ELSE 58 + Digits(chunks[i].id) + JsonLen(chunks[i].text)
         + (IF chunks[i].embedding THEN LegacyEmbeddingBytes ELSE 0)
         + SumChunkBytes(chunks, i + 1)

DocBytes(d) ==
  6 + 52 + (18 + Len(d.name)) + 47 + (22 + Digits(d.chunkCount))
    + (IF d.chunks = << >> THEN 19
       ELSE 18 + SumChunkBytes(d.chunks, 1) + 2 * (Len(d.chunks) - 1) + 9)
    + 5

\* the bytes of the documents at positions lo..hi
RECURSIVE SumDocRange(_, _, _)
SumDocRange(docs, lo, hi) ==
  IF lo > hi THEN 0
  ELSE IF lo = hi THEN DocBytes(docs[lo])
  ELSE LET mid == (lo + hi) \div 2
       IN SumDocRange(docs, lo, mid) + SumDocRange(docs, mid + 1, hi)

SumDocBytes(docs, i) == SumDocRange(docs, i, Len(docs))

\* the length of JSON.stringify({docs}, null, 2)
StoreBytes(docs) ==
  IF docs = << >> THEN 16 ELSE 14 + SumDocBytes(docs, 1) + 2 * (Len(docs) - 1) + 6

\* the file JSON.stringify(obj, null, 2) makes
Serialize(docs) == [kind |-> "json", docs |-> docs, bytes |-> StoreBytes(docs)]

\* a file whose write was cut short
PartialFile(docs) == [kind |-> "partial", docs |-> << >>, bytes |-> StoreBytes(docs) \div 2]

EmptyStoreFile == Serialize(<< >>)

\* mutant: the file is written in place, without the temporary file
writeStoreInPlace(phase, d, t, obj) ==
  IF phase = "open" THEN [disk |-> PartialFile(obj), tmp |-> t]
  ELSE IF phase = "full" THEN [disk |-> Serialize(obj), tmp |-> t]
  ELSE [disk |-> d, tmp |-> t]

\* writeStore(obj) in its three steps on the files d (STORE_PATH) and t
\* (STORE_PATH + '.tmp'): writeFileSync begun, writeFileSync finished,
\* renameSync done
writeStore(phase, d, t, obj) ==
  IF phase = "open" THEN [disk |-> d, tmp |-> PartialFile(obj)]
  ELSE IF phase = "full" THEN [disk |-> d, tmp |-> Serialize(obj)]
  ELSE [disk |-> t, tmp |-> MissingFile]

StripEmbeddings(docs) ==
  [i \in 1..Len(docs) |->
     [docs[i] EXCEPT !.chunks = [j \in 1..Len(@) |-> [@[j] EXCEPT !.embedding = FALSE]]]]

\* mutant: the file is rewritten as an empty store whatever it holds
loadStoreResets(f) == [heal |-> TRUE, raised |-> FALSE, docs |-> << >>]

\* mutant: a parse failure is not caught
loadStoreNoCatch(f) ==
  IF f.kind = "missing" THEN [heal |-> TRUE, raised |-> FALSE, docs |-> << >>]
  ELSE IF f.bytes = 0 \/ f.bytes > MAX_STORE_BYTES
    THEN [heal |-> TRUE, raised |-> FALSE, docs |-> << >>]
  ELSE IF f.kind = "blank" THEN [heal |-> TRUE, raised |-> FALSE, docs |-> << >>]
  ELSE IF f.kind # "json" THEN [heal |-> FALSE, raised |-> TRUE, docs |-> << >>]
  ELSE [heal |-> FALSE, raised |-> FALSE, docs |-> StripEmbeddings(f.docs)]

\* loadStore() on the file f at STORE_PATH: heal says that it rewrites the
\* file as an empty store before returning, docs is the store it returns
loadStore(f) ==
  IF f.kind = "missing" THEN [heal |-> TRUE, raised |-> FALSE, docs |-> << >>]
  ELSE IF f.bytes = 0 \/ f.bytes > MAX_STORE_BYTES
    THEN [heal |-> TRUE, raised |-> FALSE, docs |-> << >>]
  ELSE IF f.kind = "blank" THEN [heal |-> TRUE, raised |-> FALSE, docs |-> << >>]
  ELSE IF f.kind # "json" THEN [heal |-> TRUE, raised |-> FALSE, docs |-> << >>]
  ELSE [heal |-> FALSE, raised |-> FALSE, docs |-> StripEmbeddings(f.docs)]

\* ---------------------------------------------------------------- extraction
\* mutant: chunk ids are numbered from 1
MakeDocFromOne(id, name, now, chunks) ==
  [id |-> id, name |-> name, createdAt |-> now, chunkCount |-> Len(chunks),
   chunks |-> [i \in 1..Len(chunks) |-> [id |-> i, text |-> chunks[i], embedding |-> FALSE]]]

\* the document the upload handler builds from a file's chunks
MakeDoc(id, name, now, chunks) ==
  [id |-> id, name |-> name, createdAt |-> now, chunkCount |-> Len(chunks),
   chunks |-> [i \in 1..Len(chunks) |->
                 [id |-> i - 1, text |-> chunks[i], embedding |-> FALSE]]]

\* What extractFileToChunks can do with a file: [kind |-> "chunks", chunks],
\* [kind |-> "error"] (a rejection that skips the file) or
\* [kind |-> "toolmissing"] (PDFTOTEXT_MISSING).  The output of the PDF
\* subprocess may stop early (killed at the timeout) or fail.
ExtractOutcomes(file, pdftotext) ==
  IF file.type = "pdf"
    THEN IF ~pdftotext THEN {[kind |-> "toolmissing", chunks |-> << >>]}
         ELSE { [kind |-> "chunks",
                 chunks |-> streamReadableToChunks(StreamInitState, SliceTo(file.text, n),
                                                   BigPiece)] :
                   n \in {StrLen(file.text), StrLen(file.text) \div 2, 0} }
              \cup {[kind |-> "error", chunks |-> << >>]}
  ELSE IF file.type = "docx"
    THEN {[kind |-> "chunks", chunks |-> extractChunksFromDocxPath(file.text)]}
  ELSE IF file.type = "txt"
    THEN {[kind |-> "chunks", chunks |-> extractChunksFromTxtPath(file.text)]}
  ELSE {[kind |-> "error", chunks |-> << >>]}

\* whether extractFileToChunks starts the pdftotext subprocess for the file
Spawns(file, pdftotext) == file.type = "pdf" /\ pdftotext

\* mutant: a failed extraction ends the request like a missing tool
FileVerdictAbortOnError(o) ==
  IF o.kind \in {"toolmissing", "error"} THEN "abort"
  ELSE IF o.chunks # << >> THEN "add"
  ELSE "skip"

\* what the upload loop does with the outcome o of a file's extraction:
\* "abort" answers 501, "skip" goes on to the next file, "add" builds a
\* document
FileVerdict(o) ==
  IF o.kind = "toolmissing" THEN "abort"
  ELSE IF o.kind = "error" THEN "skip"
  ELSE IF o.chunks # << >> THEN "add"
  ELSE "skip"

\* ----------------------------------------------------------------- retrieval
Max(a, b) == IF a > b THEN a ELSE b

\* scopeDocs.reduce((s, d) => s + d.chunks.length, 0) over positions lo..hi
RECURSIVE CountChunks(_, _, _)
CountChunks(docs, lo, hi) ==
  IF lo > hi THEN 0
  ELSE IF lo = hi THEN Len(docs[lo].chunks)
  ELSE LET mid == (lo + hi) \div 2
       IN CountChunks(docs, lo, mid) + CountChunks(docs, mid + 1, hi)

\* mutant: over the cap, each document gives its last chunks
limitScopeChunksFromEnd(scopeDocs, cap) ==
  LET total == CountChunks(scopeDocs, 1, Len(scopeDocs)) IN
  IF total <= cap
    THEN [i \in 1..Len(scopeDocs) |-> [doc |-> scopeDocs[i], chunks |-> scopeDocs[i].chunks]]
  ELSE LET perDoc == Max(1, cap \div Len(scopeDocs)) IN
       [i \in 1..Len(scopeDocs) |->
          LET n == Len(scopeDocs[i].chunks) IN
          [doc |-> scopeDocs[i],
           chunks |-> SubSeq(scopeDocs[i].chunks, n - Min(perDoc, n) + 1, n)]]

\* mutant: the cap is not divided among the documents
limitScopeChunksUndivided(scopeDocs, cap) ==
  [i \in 1..Len(scopeDocs) |->
     [doc |-> scopeDocs[i],
      chunks |-> SubSeq(scopeDocs[i].chunks, 1, Min(cap, Len(scopeDocs[i].chunks)))]]

limitScopeChunks(scopeDocs, cap) ==
  LET total == CountChunks(scopeDocs, 1, Len(scopeDocs)) IN
  IF total <= cap
    THEN [i \in 1..Len(scopeDocs) |-> [doc |-> scopeDocs[i], chunks |-> scopeDocs[i].chunks]]
  ELSE LET perDoc == Max(1, cap \div Len(scopeDocs)) IN
       [i \in 1..Len(scopeDocs) |->
          [doc |-> scopeDocs[i],
           chunks |-> SubSeq(scopeDocs[i].chunks, 1,
                             Min(perDoc, Len(scopeDocs[i].chunks)))]]

\* the request body of POST /api/ask: docIds and k may be left out
AskBody(question, docIds, k) == [question |-> question, docIds |-> docIds, k |-> k]

\* const { k = 6 } = req.body
DefaultK == 6

KOf(body) == IF body.k.given THEN body.k.value ELSE DefaultK

\* mutant: the ids of the request are ignored
resolveScopeAll(docs, docIds) == docs

\* the scope of an ask request over the loaded documents
resolveScope(docs, docIds) ==
  IF docIds.given /\ Len(docIds.ids) > 0
    THEN SelectSeq(docs, LAMBDA d : \E j \in 1..Len(docIds.ids) : docIds.ids[j] = d.id)
  ELSE docs

\* mutant: an empty scope is not rejected
ScopeVerdictNone(scopeDocs) == "retrieve"

\* if (!scopeDocs.length) return res.status(400)
ScopeVerdict(scopeDocs) == IF Len(scopeDocs) = 0 THEN "reject" ELSE "retrieve"

\* the items pushed for one pack: one per chunk, in chunk order
PackItems(pack) ==
  [j \in 1..Len(pack.chunks) |->
     [docId |-> pack.doc.id, name |-> pack.doc.name, chunkId |-> pack.chunks[j].id,
      text |-> pack.chunks[j].text]]

\* for (const { doc, chunks } of packs) for (const ch of chunks) all.push(...)
RECURSIVE ScanPacks(_, _, _)
ScanPacks(packs, lo, hi) ==
  IF lo > hi THEN << >>
  ELSE IF lo = hi THEN PackItems(packs[lo])
  ELSE LET mid == (lo + hi) \div 2
       IN ScanPacks(packs, lo, mid) \o ScanPacks(packs, mid + 1, hi)

\* The scores cosine gives are modelled as integers 0..MaxScore; what the
\* embedding service returned decides them.  Each scorer is one such
\* outcome, as a function of the scan position.
MaxScore == 6

Scorers == {"flat", "rising", "falling", "alt", "mod3"}

Score(scorer, pos) ==
  IF scorer = "flat" THEN 0
  ELSE IF scorer = "rising" THEN Min(pos - 1, MaxScore)
  ELSE IF scorer = "falling" THEN MaxScore - Min(pos - 1, MaxScore)
  ELSE IF scorer = "alt" THEN pos % 2
  ELSE pos % 3

\* all.map((item, i) => ({ ...item, score })); pos keeps the scan position
ScoreAll(all, scorer) ==
  [i \in 1..Len(all) |->
     [docId |-> all[i].docId, name |-> all[i].name, chunkId |-> all[i].chunkId,
      text |-> all[i].text, score |-> Score(scorer, i), pos |-> i]]

\* mutant: ascending order
RECURSIVE SortUpFrom(_, _)
SortUpFrom(scored, s) ==
  IF s > MaxScore THEN << >>
  ELSE SelectSeq(scored, LAMBDA x : x.score = s) \o SortUpFrom(scored, s + 1)

sortAscending(scored) == SortUpFrom(scored, 0)

\* scored.sort((a, b) => b.score - a.score): the stable sort by descending
\* score, as the items of the highest score in their order, then those of
\* the next score, and so on
RECURSIVE SortFrom(_, _)
SortFrom(scored, s) ==
  IF s < 0 THEN << >>
  ELSE SelectSeq(scored, LAMBDA x : x.score = s) \o SortFrom(scored, s - 1)

sortByScore(scored) == SortFrom(scored, MaxScore)

\* Array.prototype.slice(0, k): a negative k counts from the end
sliceTop(seq, k) ==
  LET n == Len(seq)
      end == IF k < 0 THEN Max(n + k, 0) ELSE Min(k, n)
  IN SubSeq(seq, 1, end)

\* the 'Source i' blocks of the prompt
contextBlocks(top) ==
  [i \in 1..Len(top) |->
     [source |-> i, name |-> top[i].name, chunkId |-> top[i].chunkId,
      score |-> top[i].score, text |-> top[i].text]]

\* mutant: labels count from 0
citationsFromZero(top) ==
  [i \in 1..Len(top) |->
     [label |-> i - 1, name |-> top[i].name, chunkId |-> top[i].chunkId,
      docId |-> top[i].docId, score |-> top[i].score]]

\* the citations of the response
citations(top) ==
  [i \in 1..Len(top) |->
     [label |-> i, name |-> top[i].name, chunkId |-> top[i].chunkId,
      docId |-> top[i].docId, score |-> top[i].score]]

\* An ask request.  body, all, embedded, top, blocks and resp are the
\* handler's state (embedded: how many chunk embeddings embedTexts has
\* received); the rest is bookkeeping: the ids of the loaded store's
\* documents, the scope as [id, n, took] (n chunks in the store, took of
\* them in its pack), and the calls made to the embedding and the completion
\* service, and whether loadStore ran.
AskNoResp == [status |-> 0, error |-> "", answered |-> FALSE, citations |-> << >>]

AskIdle ==
  [pc |-> "idle", body |-> AskBody("", [given |-> FALSE, ids |-> << >>],
                                   [given |-> FALSE, value |-> 0]),
   all |-> << >>, embedded |-> 0, top |-> << >>, blocks |-> << >>, resp |-> AskNoResp,
   storeIds |-> << >>, scope |-> << >>, embedCalls |-> 0, completeCalls |-> 0,
   loaded |-> FALSE]

\* ------------------------------------------------- summarize and flashcards
\* const { docId, maxChars = 100_000 } = req.body || {}
DefaultMaxChars == 100000

MaxCharsOf(body) == IF body.maxChars.given THEN body.maxChars.value ELSE DefaultMaxChars

\* text.slice(0, 12000) of the flashcards handler
FlashcardChars == 12000

\* '\n\n'
Separator == Blanks("lf", 2)

\* the loop of the summarize handler from chunk i on: stop once the text has
\* maxChars characters, else add the separator (unless the text is empty) and
\* the first maxChars - text.length characters of the chunk
RECURSIVE SummaryLoop(_, _, _, _)
SummaryLoop(chunks, i, text, maxChars) ==
  IF i > Len(chunks) \/ StrLen(text) >= maxChars THEN text
  ELSE LET remain == maxChars - StrLen(text)
           sep == IF text # EmptyStr THEN Separator ELSE EmptyStr
       IN SummaryLoop(chunks, i + 1,
                      Concat(text, Concat(sep, SliceTo(chunks[i].text, remain))), maxChars)

\* doc.chunks.map(c => c.text).join("\n\n"), from chunk i on
RECURSIVE JoinChunks(_, _)
JoinChunks(chunks, i) ==
  IF i > Len(chunks) THEN EmptyStr
  ELSE IF i = Len(chunks) THEN chunks[i].text
  ELSE Concat(chunks[i].text, Concat(Separator, JoinChunks(chunks, i + 1)))

\* the text the flashcards handler sends
flashcardText(chunks) == SliceTo(JoinChunks(chunks, 1), FlashcardChars)

\* store.docs.find(d => d.id === docId): the position of the first document
\* with that id, 0 if there is none
RECURSIVE FindDoc(_, _, _)
FindDoc(docs, docId, i) ==
  IF i > Len(docs) THEN 0
  ELSE IF docs[i].id = docId THEN i
  ELSE FindDoc(docs, docId, i + 1)

\* What the completion service may return as message.content to the
\* flashcards handler: text that is JSON or not; if JSON, its top-level value
\* (an object, an array or null); if an object, its flashcards member, by
\* type and, for a list, length (absent: no such member).
Member(type, n) == [type |-> type, n |-> n]

NoMember == Member("absent", 0)

NoContent == [json |-> FALSE, top |-> "unset", flashcards |-> NoMember]

Contents ==
  {[json |-> FALSE, top |-> "text", flashcards |-> NoMember],
   [json |-> TRUE, top |-> "null", flashcards |-> NoMember],
   [json |-> TRUE, top |-> "array", flashcards |-> NoMember]}
    \cup {[json |-> TRUE, top |-> "object", flashcards |-> f] :
            f \in {NoMember, Member("null", 0), Member("string", 5),
                   Member("list", 0), Member("list", 3)}}

\* JavaScript's truthiness of a member
Truthy(f) == f.type = "list" \/ (f.type = "string" /\ f.n > 0)

\* the flashcards handler from JSON.parse on: the status, the error and the
\* flashcards member of the response
flashcardsResponse(content) ==
  IF ~content.json
    THEN [status |-> 500, error |-> "Invalid JSON returned by model", flashcards |-> NoMember]
  ELSE IF content.top = "null"
    THEN [status |-> 500, error |-> "Server error", flashcards |-> NoMember]
  ELSE LET f == IF content.top = "object" THEN content.flashcards ELSE NoMember
       IN [status |-> 200, error |-> "",
           flashcards |-> IF Truthy(f) THEN f ELSE Member("list", 0)]

\* A summarize, flashcards, health or delete request.  kind, body, text,
\* content and resp are the handler's state (text: what is sent to the
\* completion service, content: what it returned); loaded, held and
\* completeCalls are bookkeeping: whether loadStore ran, whether the store
\* file held the document to delete, the calls made to the completion
\* service.
GenNoResp ==
  [status |-> 0, error |-> "", summary |-> FALSE, flashcards |-> NoMember]

GenBody(docId, maxChars) == [docId |-> docId, maxChars |-> maxChars]

GenIdle ==
  [kind |-> "none", pc |-> "idle",
   body |-> GenBody([given |-> FALSE, id |-> 0], [given |-> FALSE, value |-> 0]),
   text |-> EmptyStr, content |-> NoContent,
   resp |-> GenNoResp, loaded |-> FALSE, held |-> FALSE, completeCalls |-> 0]

\* ------------------------------------------------------- the PDF subprocess
\* child: the pdftotext process ("none", "running", "failed": it could not
\* be started, "exited", "killed"); errorEvent: an 'error' event of the child
\* is waiting to be delivered; timer: the timeout ("none", "armed", "fired",
\* "cleared"); reacted: the then or catch callback has run; outcome: the
\* promise of extractChunksFromPdfPath ("none", "pending", "resolved",
\* "rejected"), chunks its value; settles: the calls of its resolve and
\* reject; signals: the signals sent to the child
PdfIdle ==
  [child |-> "none", errorEvent |-> FALSE, timer |-> "none", reacted |-> FALSE,
   outcome |-> "none", chunks |-> << >>, settles |-> 0, signals |-> << >>]

\* ------------------------------------------------------------------ client
\* bounds of the client model: questions of a quiz, options of a question,
\* quiz requests and glossary requests made in a behaviour
MaxQuestions == 2
MaxOptions == 2
MaxQuizRequests == 2
MaxGlossaryRequests == 3

\* selectedIndex of a question no option was chosen for
Undefined == -1

\* The quiz signals of the page component when it is constructed.  pending
\* holds the generateQuiz requests that have not been answered, issued
\* counts them; lastOp is bookkeeping: the method or callback that ran last.
QuizIdle ==
  [quizQuestions |-> << >>, quizError |-> "", isLoadingQuiz |-> FALSE,
   quizSubmitted |-> FALSE, pending |-> {}, issued |-> 0, lastOp |-> "constructor"]

\* The glossary signals of AnalysisService when it is constructed.  Terms
\* are kept as the request that returned them (by: 0 for none), the document
\* they are about and their number.
NoTerms == [by |-> 0, docId |-> "", n |-> 0]

GlossIdle ==
  [glossary |-> NoTerms, glossaryLoading |-> FALSE, glossaryError |-> "",
   selectedDocId |-> "", pending |-> {}, issued |-> 0, lastOp |-> "constructor"]


\* ------------------------------------------------ one extraction, step by step
\* inp is the file, rs the source stream, st the locals of
\* streamReadableToChunks, result the promise it returned (built: the number
\* of chunks that existed when the promise was settled)
VARIABLES inp, rs, st, result

streamVars == <<inp, rs, st, result>>

\* the server: the files at STORE_PATH and STORE_PATH + '.tmp', the requests
\* in flight, the request running synchronous code (0: none), the uuid
\* source, the temporary upload files, the process environment, and
\* bookkeeping (requests started, which also serves as the time of day;
\* whether the process has crashed; the last writeStore's old and new content
\* and the request that made it; the ids of the documents that upload
\* responses have reported)
VARIABLES disk, tmp, req, cur, nextId, started, crashed, tmpFiles, env, lastWrite, reported

\* the ask request in progress
VARIABLE ask

serverVars ==
  <<disk, tmp, req, cur, nextId, started, crashed, tmpFiles, env, lastWrite, reported>>

askVars == <<ask>>

\* the summarize, flashcards, health or delete request in progress
VARIABLE gen

genVars == <<gen>>

\* the pdftotext subprocess of one PDF extraction, its timer and the promise
\* extractChunksFromPdfPath returned
VARIABLE pdf

pdfVars == <<pdf>>

\* the client: the quiz state of the page component with its requests on the
\* way, and the glossary state of AnalysisService with its requests on the way
VARIABLES quiz, gloss

clientVars == <<quiz, gloss>>

vars == <<streamVars, serverVars, askVars, genVars, pdfVars, clientVars>>

PieceSizes == {SmallPiece, STREAM_HWM, BigPiece}

TextLens ==
  {0, 1, CHUNK_OVERLAP, CHUNK_OVERLAP + 1, MAX_CHARS_PER_CHUNK - 1, MAX_CHARS_PER_CHUNK,
   MAX_CHARS_PER_CHUNK + 1, 2 * MAX_CHARS_PER_CHUNK - CHUNK_OVERLAP,
   2 * MAX_CHARS_PER_CHUNK - CHUNK_OVERLAP + 1, 50000, MAX_TEXT_PER_FILE - 1,
   MAX_TEXT_PER_FILE, MAX_TEXT_PER_FILE + 1, MAX_TEXT_PER_FILE + OverLen}

\* a text whose only line ending is a carriage return, line feed pair that a
\* piece of STREAM_HWM characters ends in the middle of
CrlfText ==
  Concat(Letters(1, STREAM_HWM - 1),
         Concat(Blanks("cr", 1), Concat(Blanks("lf", 1), Letters(STREAM_HWM, STREAM_HWM + 100))))

BlankTexts ==
  { Blanks("sp", MAX_CHARS_PER_CHUNK + 500),
    Concat(Blanks("sp", 10), Concat(Letters(1, 4000), Blanks("lf", 5))),
    Concat(Letters(1, 2900), Concat(Blanks("sp", 3100), Letters(2901, 3000))),
    Concat(Letters(1, 10), Concat(Blanks("cr", 1), Concat(Blanks("lf", 1), Letters(11, 20)))),
    CrlfText }

Texts == { Letters(1, n) : n \in TextLens } \cup BlankTexts

\* ------------------------------------------------------------ server state
Slots == {1, 2}

\* bounds of the server model
MaxRequests == 2

NoResp == [status |-> 0, error |-> "", fix |-> "", uploaded |-> << >>, docs |-> << >>]

\* A request slot.  kind, files, idx, store, out and resp are the handler's
\* locals (req.files, the loop position, store, out, the response sent); w is
\* the writeStore call in progress.  no, heldIds, healed, made, overlap and
\* clobbered are bookkeeping: the request's number, the ids of the documents
\* the store file held when the request began, whether loadStore rewrote the
\* file, what each file's extraction gave, whether another request was in
\* flight meanwhile, the ids of the documents other requests saved between
\* this request's load and its save, and the positions of the files for which
\* a subprocess was started.
IdleReq ==
  [kind |-> "none", pc |-> "idle", files |-> << >>, idx |-> 0, store |-> << >>,
   out |-> << >>, resp |-> NoResp,
   w |-> [phase |-> "none", obj |-> << >>, ret |-> "none"],
   no |-> 0, heldIds |-> << >>, healed |-> FALSE, made |-> << >>, overlap |-> FALSE,
   clobbered |-> {}, spawned |-> {}]

InFlight(q) == q.pc \notin {"idle", "done"}

\* the server at rest, for the specification of a single extraction
ServerQuiet ==
  /\ disk = MissingFile
  /\ tmp = MissingFile
  /\ req = [r \in Slots |-> IdleReq]
  /\ cur = 0
  /\ nextId = 1
  /\ started = 0
  /\ crashed = FALSE
  /\ tmpFiles = {}
  /\ env = [apiKey |-> TRUE, pdftotext |-> TRUE]
  /\ lastWrite = [old |-> MissingFile, new |-> MissingFile, by |-> 0]
  /\ reported = {}
  /\ ask = AskIdle
  /\ gen = GenIdle
  /\ pdf = PdfIdle
  /\ quiz = QuizIdle
  /\ gloss = GlossIdle

WsFree(text) == \A i \in 1..Len(text) : text[i].c = "a"

StreamInit ==
  /\ inp \in [path : {"txt", "pdf", "docx"}, text : Texts]
  /\ rs = [rest |-> inp.text, closed |-> FALSE, late |-> FALSE]
  /\ st = StreamInitState
  /\ result = [state |-> "pending", chunks |-> << >>, built |-> 0]
  /\ ServerQuiet

\* a 'data' event carrying the next n characters of the source
StreamData(n) ==
  /\ inp.path \in {"txt", "pdf"}
  /\ ~rs.closed /\ ~st.destroyed /\ rs.rest # EmptyStr
  /\ st' = OnData(st, SliceTo(rs.rest, n))
  /\ rs' = [rs EXCEPT !.rest = SliceFrom(@, n)]
  /\ UNCHANGED <<inp, result>>
  /\ UNCHANGED <<serverVars, askVars, genVars, pdfVars, clientVars>>

\* a 'data' event that was already queued when rs.destroy() was called
StreamLateData(n) ==
  /\ inp.path \in {"txt", "pdf"}
  /\ ~rs.closed /\ st.destroyed /\ rs.rest # EmptyStr /\ ~rs.late
  /\ st' = OnData(st, SliceTo(rs.rest, n))
  /\ rs' = [rs EXCEPT !.rest = SliceFrom(@, n), !.late = TRUE]
  /\ UNCHANGED <<inp, result>>
  /\ UNCHANGED <<serverVars, askVars, genVars, pdfVars, clientVars>>

\* 'close': the source is exhausted, the stream was destroyed, or (a pipe)
\* the subprocess ended or was killed
StreamClose ==
  /\ inp.path \in {"txt", "pdf"}
  /\ ~rs.closed
  /\ rs.rest = EmptyStr \/ st.destroyed \/ inp.path = "pdf"
  /\ st' = OnClose(st)
  /\ rs' = [rs EXCEPT !.closed = TRUE]
  /\ result' = IF result.state = "pending"
                 THEN [state |-> "resolved", chunks |-> st'.chunks, built |-> Len(st'.chunks)]
                 ELSE result
  /\ UNCHANGED inp
  /\ UNCHANGED <<serverVars, askVars, genVars, pdfVars, clientVars>>

\* 'error' on the stream: the promise is rejected
StreamError ==
  /\ inp.path \in {"txt", "pdf"}
  /\ ~rs.closed /\ result.state = "pending"
  /\ result' = [state |-> "rejected", chunks |-> << >>, built |-> Len(st.chunks)]
  /\ UNCHANGED <<inp, rs, st>>
  /\ UNCHANGED <<serverVars, askVars, genVars, pdfVars, clientVars>>

\* the rich-document path, one synchronous run
DocxExtract ==
  /\ inp.path = "docx"
  /\ result.state = "pending"
  /\ result' = LET chunks == extractChunksFromDocxPath(inp.text)
                IN [state |-> "resolved", chunks |-> chunks, built |-> Len(chunks)]
  /\ UNCHANGED <<inp, rs, st>>
  /\ UNCHANGED <<serverVars, askVars, genVars, pdfVars, clientVars>>

StreamNext ==
  \/ \E n \in PieceSizes : StreamData(n)
  \/ \E n \in PieceSizes : StreamLateData(n)
  \/ StreamClose
  \/ StreamError
  \/ DocxExtract

SpecStream == StreamInit /\ [][StreamNext]_vars

\* ------------------------------------------------------------------ server
\* the uploads the requests are drawn from
FileA == [name |-> "a.txt", type |-> "txt", text |-> Letters(1, 5000)]
FileEmpty == [name |-> "z.txt", type |-> "txt", text |-> EmptyStr]
FileBin == [name |-> "x.bin", type |-> "other", text |-> Letters(1, 10)]
FilePdf == [name |-> "p.pdf", type |-> "pdf", text |-> Letters(1, 4000)]
FileDocx == [name |-> "d.docx", type |-> "docx", text |-> Letters(1, 3000)]
FileBig == [name |-> "e.txt", type |-> "txt", text |-> Letters(1, MAX_TEXT_PER_FILE - 1)]

\* a file that begins and ends with whitespace and holds a run of spaces
\* longer than two windows
FileGap ==
  [name |-> "g.txt", type |-> "txt",
   text |-> Concat(Blanks("lf", 3),
                   Concat(Letters(1, MAX_CHARS_PER_CHUNK - 100),
                          Concat(Blanks("sp", 2 * MAX_CHARS_PER_CHUNK + 100),
                                 Concat(Letters(MAX_CHARS_PER_CHUNK - 99, MAX_CHARS_PER_CHUNK),
                                        Blanks("sp", 7)))))]

FileLists ==
  { << >>, <<FileGap>>, <<FileBin, FileA>>, <<FileA, FilePdf>>, <<FilePdf>>, <<FilePdf, FileA>>,
    <<FileDocx, FileEmpty>>, <<FileBig>> }

\* stores left by earlier runs of the server
OldDoc == MakeDoc(1, "a.txt", 0, extractChunksFromTxtPath(FileA.text))

LegacyDoc ==
  [OldDoc EXCEPT !.chunks = [j \in 1..Len(@) |-> [@[j] EXCEPT !.embedding = TRUE]]]

BigDoc(i) == MakeDoc(i, "e.txt", 0, extractChunksFromTxtPath(FileBig.text))

\* the largest number of BigDoc documents a store within the ceiling holds
FillCount == (MAX_STORE_BYTES - 18) \div (DocBytes(BigDoc(1)) + 2)

InitDisks ==
  { MissingFile,
    [kind |-> "empty", docs |-> << >>, bytes |-> 0],
    [kind |-> "blank", docs |-> << >>, bytes |-> 3],
    [kind |-> "garbage", docs |-> << >>, bytes |-> 40],
    [kind |-> "garbage", docs |-> << >>, bytes |-> MAX_STORE_BYTES + 1],
    EmptyStoreFile,
    Serialize(<<OldDoc>>),
    Serialize(<<LegacyDoc>>) }

ServerInit(disks, envs) ==
  /\ disk \in disks
  /\ tmp = MissingFile
  /\ req = [r \in Slots |-> IdleReq]
  /\ cur = 0
  /\ nextId = Len(disk.docs) + 1
  /\ started = 0
  /\ crashed = FALSE
  /\ tmpFiles = {}
  /\ env \in envs
  /\ lastWrite = [old |-> disk, new |-> disk, by |-> 0]
  /\ reported = {}
  /\ ask = AskIdle
  /\ gen = GenIdle
  /\ pdf = PdfIdle
  /\ quiz = QuizIdle
  /\ gloss = GlossIdle
  /\ inp = [path |-> "txt", text |-> EmptyStr]
  /\ rs = [rest |-> EmptyStr, closed |-> FALSE, late |-> FALSE]
  /\ st = StreamInitState
  /\ result = [state |-> "pending", chunks |-> << >>, built |-> 0]

Init == ServerInit(InitDisks, [apiKey : BOOLEAN, pdftotext : BOOLEAN])

InitFull ==
  ServerInit({Serialize([i \in 1..FillCount |-> BigDoc(i)])},
             [apiKey : {TRUE}, pdftotext : BOOLEAN])

Respond(q, status, error) ==
  [q EXCEPT !.pc = "done", !.resp = [NoResp EXCEPT !.status = status, !.error = error]]

DocMeta(docs) ==
  [i \in 1..Len(docs) |->
     [id |-> docs[i].id, name |-> docs[i].name, chunkCount |-> docs[i].chunkCount,
      createdAt |-> docs[i].createdAt]]

\* mutant: the store is read again just before it is saved
storeReloaded(d, store, new) == loadStore(d).docs \o new

\* the object the upload handler hands to saveStore: the store it loaded at
\* the start, with the documents it pushed since (new)
storeToSave(d, store, new) == store \o new

\* a request that starts marks the requests in flight, and itself, as
\* overlapping
MarkOverlap(r, q) ==
  LET others == \E o \in Slots \ {r} : InFlight(req[o]) IN
  [o \in Slots |->
     IF o = r THEN [q EXCEPT !.overlap = others]
     ELSE IF InFlight(req[o]) THEN [req[o] EXCEPT !.overlap = TRUE]
     ELSE req[o]]

DocIds(docs) == [i \in 1..Len(docs) |-> docs[i].id]

InSeq(x, s) == \E j \in 1..Len(s) : s[j] = x

\* the slot a new request takes
FreeSlot == CHOOSE r \in Slots : ~InFlight(req[r]) /\ \A o \in Slots : o < r => InFlight(req[o])

\* where the upload handler stands once loadStore has returned docs
UploadLoaded(q, docs) == [q EXCEPT !.store = docs, !.pc = "extract", !.idx = 1]

\* GET /api/docs once loadStore has returned docs
ListLoaded(q, docs) ==
  [q EXCEPT !.pc = "done", !.resp = [NoResp EXCEPT !.status = 200, !.docs = DocMeta(docs)]]

\* the handler of request q goes on with what loadStore returned
Loaded(q, docs) ==
  IF q.kind = "upload" THEN UploadLoaded(q, docs) ELSE ListLoaded(q, docs)

\* loadStore at the start of a handler: either it returns at once (the
\* handler goes on), or its writeStore begins
BeginLoad(r, q0) ==
  LET ld == loadStore(disk)
      q == [q0 EXCEPT !.heldIds = DocIds(disk.docs)]
  IN
  IF ld.raised
    THEN /\ req' = MarkOverlap(r, Respond(q, 500, "load failed"))
         /\ UNCHANGED <<disk, tmp, cur, lastWrite>>
  ELSE IF ld.heal
    THEN LET f == writeStore("open", disk, tmp, << >>) IN
         /\ disk' = f.disk
         /\ tmp' = f.tmp
         /\ lastWrite' = [old |-> disk, new |-> Serialize(<< >>), by |-> q.no]
         /\ cur' = r
         /\ req' = MarkOverlap(r, [q EXCEPT !.pc = "write", !.healed = TRUE,
                                             !.w = [phase |-> "open", obj |-> << >>,
                                                    ret |-> "load"]])
  ELSE /\ req' = MarkOverlap(r, Loaded(q, ld.docs))
       /\ UNCHANGED <<disk, tmp, cur, lastWrite>>

\* POST /api/upload up to its first await: the uploaded files are on disk,
\* the credential and the file list are checked, the store is loaded
UploadBegin(r, files) ==
  /\ cur = 0 /\ started < MaxRequests
  /\ \E o \in Slots : ~InFlight(req[o])
  /\ r = FreeSlot
  /\ started' = started + 1
  /\ tmpFiles' = tmpFiles \cup {<<started + 1, i>> : i \in 1..Len(files)}
  /\ LET q == [IdleReq EXCEPT !.kind = "upload", !.no = started + 1, !.files = files] IN
     IF ~env.apiKey
       THEN /\ req' = MarkOverlap(r, Respond(q, 400, "Missing OPENAI_API_KEY on server"))
            /\ UNCHANGED <<disk, tmp, cur, lastWrite>>
     ELSE IF files = << >>
       THEN /\ req' = MarkOverlap(r, Respond(q, 400, "No files uploaded"))
            /\ UNCHANGED <<disk, tmp, cur, lastWrite>>
     ELSE BeginLoad(r, q)
  /\ UNCHANGED <<nextId, crashed, reported, env>>
  /\ UNCHANGED <<streamVars, askVars, genVars, pdfVars, clientVars>>

\* GET /api/docs
ListDocs(r) ==
  /\ cur = 0 /\ started < MaxRequests
  /\ \E o \in Slots : ~InFlight(req[o])
  /\ r = FreeSlot
  /\ started' = started + 1
  /\ BeginLoad(r, [IdleReq EXCEPT !.kind = "list", !.no = started + 1])
  /\ UNCHANGED <<nextId, crashed, reported, env, tmpFiles>>
  /\ UNCHANGED <<streamVars, askVars, genVars, pdfVars, clientVars>>

\* writeStore: writeFileSync to the temporary file completes
WriteFinish(r) ==
  /\ cur = r /\ req[r].pc = "write" /\ req[r].w.phase = "open"
  /\ LET f == writeStore("full", disk, tmp, req[r].w.obj) IN
     /\ disk' = f.disk
     /\ tmp' = f.tmp
  /\ req' = [req EXCEPT ![r].w.phase = "full"]
  /\ UNCHANGED <<cur, nextId, started, crashed, reported, tmpFiles, env, lastWrite>>
  /\ UNCHANGED <<streamVars, askVars, genVars, pdfVars, clientVars>>

\* writeStore: renameSync, and the caller runs on to its next await or to its
\* response
WriteRename(r) ==
  /\ cur = r /\ req[r].pc = "write" /\ req[r].w.phase = "full"
  /\ LET f == writeStore("rename", disk, tmp, req[r].w.obj) IN
     /\ disk' = f.disk
     /\ tmp' = f.tmp
  /\ cur' = 0
  /\ LET q == [req[r] EXCEPT !.w = IdleReq.w]
         saved == IF req[r].w.ret = "save" THEN {q.out[i].id : i \in 1..Len(q.out)} ELSE {}
     IN req' = [o \in Slots |->
          IF o = r
            THEN IF req[r].w.ret = "load"
                   THEN Loaded(q, << >>)
                 ELSE [q EXCEPT !.pc = "done",
                                !.resp = [NoResp EXCEPT !.status = 200, !.uploaded = q.out]]
          ELSE IF req[o].pc = "extract"
            THEN [req[o] EXCEPT !.clobbered = @ \cup saved]
          ELSE req[o]]
  /\ reported' = IF req[r].w.ret = "save"
                   THEN reported \cup {req[r].out[i].id : i \in 1..Len(req[r].out)}
                   ELSE reported
  /\ UNCHANGED <<nextId, started, crashed, tmpFiles, env, lastWrite>>
  /\ UNCHANGED <<streamVars, askVars, genVars, pdfVars, clientVars>>

\* The upload loop resumes after the extraction of file idx: the temporary
\* file is removed, the document is built and pushed, and after the last file
\* saveStore begins.
FileDone(r) ==
  /\ cur = 0 /\ req[r].pc = "extract"
  /\ \E o \in ExtractOutcomes(req[r].files[req[r].idx], env.pdftotext) :
       LET file == req[r].files[req[r].idx]
           q == [req[r] EXCEPT !.made = Append(@, o),
                               !.spawned = IF Spawns(file, env.pdftotext)
                                             THEN @ \cup {req[r].idx} ELSE @]
           add == FileVerdict(o) = "add"
           doc == MakeDoc(nextId, file.name, started, o.chunks)
           new == IF add THEN <<doc>> ELSE << >>
           q2 == [q EXCEPT !.store = @ \o new,
                           !.out = IF add
                                     THEN Append(@, [id |-> doc.id, name |-> doc.name,
                                                     chunkCount |-> doc.chunkCount])
                                     ELSE @]
       IN /\ tmpFiles' = tmpFiles \ {<<q.no, q.idx>>}
          /\ IF FileVerdict(o) = "abort"
               THEN /\ req' = [req EXCEPT ![r] =
                                  [Respond(q, 501, "PDFTOTEXT_MISSING")
                                     EXCEPT !.resp.fix = "Install Poppler (pdftotext) and restart."]]
                    /\ UNCHANGED <<disk, tmp, cur, nextId, lastWrite>>
             ELSE IF q.idx < Len(q.files)
               THEN /\ req' = [req EXCEPT ![r] = [q2 EXCEPT !.idx = @ + 1]]
                    /\ nextId' = IF add THEN nextId + 1 ELSE nextId
                    /\ UNCHANGED <<disk, tmp, cur, lastWrite>>
             ELSE LET obj == storeToSave(disk, q.store, new)
                      f == writeStore("open", disk, tmp, obj)
                  IN /\ disk' = f.disk
                     /\ tmp' = f.tmp
                     /\ lastWrite' = [old |-> disk, new |-> Serialize(obj), by |-> q.no]
                     /\ cur' = r
                     /\ nextId' = IF add THEN nextId + 1 ELSE nextId
                     /\ req' = [req EXCEPT ![r] =
                                  [q2 EXCEPT !.pc = "write", !.store = obj,
                                             !.w = [phase |-> "open", obj |-> obj,
                                                    ret |-> "save"]]]
  /\ UNCHANGED <<started, crashed, reported, env>>
  /\ UNCHANGED <<streamVars, askVars, genVars, pdfVars, clientVars>>

\* the process dies and is started again (once in a behaviour): the requests
\* in flight are gone, the files stay as they are
Crash ==
  /\ ~crashed
  /\ \E r \in Slots : InFlight(req[r])
  /\ crashed' = TRUE
  /\ req' = [r \in Slots |-> IdleReq]
  /\ cur' = 0
  /\ UNCHANGED <<disk, tmp, nextId, started, tmpFiles, env, lastWrite, reported>>
  /\ UNCHANGED <<streamVars, askVars, genVars, pdfVars, clientVars>>

Next ==
  \/ \E r \in Slots, files \in FileLists : UploadBegin(r, files)
  \/ \E r \in Slots : ListDocs(r)
  \/ \E r \in Slots : WriteFinish(r)
  \/ \E r \in Slots : WriteRename(r)
  \/ \E r \in Slots : FileDone(r)
  \/ Crash

Spec == Init /\ [][Next]_vars

SpecFull == InitFull /\ [][Next]_vars

\* --------------------------------------------------------------------- ask
\* the stores an ask request finds
DocB == MakeDoc(2, "b.txt", 0, extractChunksFromTxtPath(Letters(1, 100)))
DocC == MakeDoc(3, "c.txt", 0, extractChunksFromTxtPath(Letters(1, 10000)))

StoreSmall == <<OldDoc, DocB, DocC>>

\* the fewest BigDoc documents whose chunks exceed MAX_CHUNKS_FOR_ASK
WideCount == MAX_CHUNKS_FOR_ASK \div Len(BigDoc(1).chunks) + 1

StoreWide == [i \in 1..WideCount |-> BigDoc(i)]

\* one large document among small ones, within MAX_CHUNKS_FOR_ASK in all
StoreSkew == <<BigDoc(1)>> \o [i \in 1..WideCount |-> [DocB EXCEPT !.id = i + 1]]

\* more documents than MAX_CHUNKS_FOR_ASK
StoreMany == [i \in 1..(MAX_CHUNKS_FOR_ASK + 1) |-> [DocB EXCEPT !.id = i]]

AskDisks ==
  { EmptyStoreFile,
    [kind |-> "garbage", docs |-> << >>, bytes |-> 40],
    Serialize(StoreSmall), Serialize(StoreWide), Serialize(StoreSkew), Serialize(StoreMany) }

AskInit == ServerInit(AskDisks, {[apiKey |-> TRUE, pdftotext |-> TRUE]})

\* the request bodies: id 0 names no stored document
AskDocIds ==
  {[given |-> FALSE, ids |-> << >>]}
    \cup {[given |-> TRUE, ids |-> s] : s \in {<< >>, <<1>>, <<3, 1>>, <<0>>, <<0, 2>>}}

AskKs ==
  {[given |-> FALSE, value |-> 0]}
    \cup {[given |-> TRUE, value |-> v] : v \in {0 - 1, 0, 2, 1000}}

AskRespond(a, status, error) ==
  [a EXCEPT !.pc = "done", !.resp = [AskNoResp EXCEPT !.status = status, !.error = error]]

\* mutant: the catch answers with the ranking of the chunks gathered so far
AskCatchPartial(a, error) ==
  [a EXCEPT !.pc = "done",
            !.resp = [AskNoResp EXCEPT !.status = 500, !.error = error,
                        !.citations = citations(sliceTop(ScoreAll(a.all, "flat"),
                                                         KOf(a.body)))]]

\* the catch of the ask handler
AskCatch(a, error) == AskRespond(a, 500, error)

\* !question || typeof question !== 'string', negated; NotAString stands for
\* a question that is a number
NotAString == "<42>"

QuestionAny(question) == TRUE

QuestionOk(question) == question # "" /\ question # NotAString

\* scoring, sort, slice and prompt, up to the call of the completion service
AskRank(a, scorer) ==
  LET top == sliceTop(sortByScore(ScoreAll(a.all, scorer)), KOf(a.body)) IN
  [a EXCEPT !.pc = "complete", !.top = top, !.blocks = contextBlocks(top),
            !.completeCalls = @ + 1]

\* POST /api/ask up to its first await: the body is checked, the store is
\* loaded (and rewritten if it does not hold a store), the scope is resolved
\* and capped, and the question is sent to the embedding service
AskBegin(question, docIds, k) ==
  /\ ask.pc = "idle" /\ cur = 0
  /\ LET a == [ask EXCEPT !.body = AskBody(question, docIds, k)]
         a2 == [a EXCEPT !.loaded = TRUE]
         ld == loadStore(disk)
         f1 == writeStore("full", disk, tmp, << >>)
         f2 == writeStore("rename", f1.disk, f1.tmp, << >>)
         scopeDocs == resolveScope(ld.docs, docIds)
         packs == limitScopeChunks(scopeDocs, MAX_CHUNKS_FOR_ASK)
         b == [a2 EXCEPT !.storeIds = DocIds(ld.docs),
                        !.scope = [i \in 1..Len(scopeDocs) |->
                                     [id |-> scopeDocs[i].id,
                                      n |-> Len(scopeDocs[i].chunks),
                                      took |-> Len(packs[i].chunks)]]]
     IN IF ~QuestionOk(question)
          THEN /\ ask' = AskRespond(a, 400, "Missing question")
               /\ UNCHANGED <<disk, tmp, lastWrite>>
        ELSE /\ IF ld.heal
                  THEN /\ disk' = f2.disk
                       /\ tmp' = f2.tmp
                       /\ lastWrite' = [old |-> disk, new |-> Serialize(<< >>), by |-> 0]
                  ELSE UNCHANGED <<disk, tmp, lastWrite>>
             /\ ask' = IF ld.raised THEN AskRespond(a2, 500, "load failed")
                       ELSE IF ScopeVerdict(scopeDocs) = "reject"
                         THEN AskRespond(b, 400, "No docs available. Upload first.")
                       ELSE [b EXCEPT !.pc = "qembed",
                                      !.all = ScanPacks(packs, 1, Len(packs)),
                                      !.embedCalls = @ + 1]
  /\ UNCHANGED <<req, cur, nextId, started, crashed, reported, tmpFiles, env>>
  /\ UNCHANGED <<streamVars, genVars, pdfVars, clientVars>>

\* the embedding of the question arrives; embedTexts sends its first batch,
\* or returns at once if there is no text
AskQuestionEmbedded ==
  /\ ask.pc = "qembed"
  /\ env.apiKey
  /\ IF Len(ask.all) = 0
       THEN \E scorer \in Scorers : ask' = AskRank(ask, scorer)
       ELSE ask' = [ask EXCEPT !.pc = "batch", !.embedCalls = @ + 1]
  /\ UNCHANGED <<serverVars, streamVars, genVars, pdfVars, clientVars>>

\* the embeddings of a batch arrive; embedTexts sends the next batch, or the
\* handler scores and ranks and calls the completion service
AskBatchEmbedded ==
  /\ ask.pc = "batch"
  /\ env.apiKey
  /\ LET got == Min(ask.embedded + EMBEDDING_BATCH_SIZE, Len(ask.all))
         a == [ask EXCEPT !.embedded = got]
     IN IF got < Len(ask.all)
          THEN ask' = [a EXCEPT !.embedCalls = @ + 1]
          ELSE \E scorer \in Scorers : ask' = AskRank(a, scorer)
  /\ UNCHANGED <<serverVars, streamVars, genVars, pdfVars, clientVars>>

\* the completion arrives and the handler answers
AskCompleted ==
  /\ ask.pc = "complete"
  /\ env.apiKey
  /\ ask' = [ask EXCEPT !.pc = "done",
                        !.resp = [AskNoResp EXCEPT !.status = 200, !.answered = TRUE,
                                                   !.citations = citations(ask.top)]]
  /\ UNCHANGED <<serverVars, streamVars, genVars, pdfVars, clientVars>>

\* a call to the embedding or the completion service fails (as every call
\* does that carries no credential): the catch answers 500 with the
\* service's message
AskServiceFails ==
  /\ ask.pc \in {"qembed", "batch", "complete"}
  /\ ask' = AskCatch(ask, IF ask.pc = "complete" THEN "completion failed"
                                                 ELSE "embedding failed")
  /\ UNCHANGED <<serverVars, streamVars, genVars, pdfVars, clientVars>>

AskNext ==
  \/ \E question \in {"", "q", NotAString}, docIds \in AskDocIds, k \in AskKs :
       AskBegin(question, docIds, k)
  \/ AskQuestionEmbedded
  \/ AskBatchEmbedded
  \/ AskCompleted
  \/ AskServiceFails

SpecAsk == AskInit /\ [][AskNext]_vars

\* ------------------------------------- summarize, flashcards, health, delete
GenRespond(g, status, error) ==
  [g EXCEPT !.pc = "done", !.resp = [GenNoResp EXCEPT !.status = status, !.error = error]]

\* loadStore called by a handler that has no await before its next step:
\* a file that does not hold a store is rewritten as the empty store
HealStore(ld) ==
  IF ld.heal
    THEN LET f1 == writeStore("full", disk, tmp, << >>)
             f2 == writeStore("rename", f1.disk, f1.tmp, << >>)
         IN /\ disk' = f2.disk
            /\ tmp' = f2.tmp
            /\ lastWrite' = [old |-> disk, new |-> Serialize(<< >>), by |-> 0]
    ELSE UNCHANGED <<disk, tmp, lastWrite>>

\* the summarize handler after loadStore, up to its await
summarizeLoaded(g, docs) ==
  LET at == FindDoc(docs, g.body.docId.id, 1)
      text == SummaryLoop(docs[at].chunks, 1, EmptyStr, MaxCharsOf(g.body))
  IN IF at = 0 THEN GenRespond(g, 404, "Doc not found")
     ELSE IF text = EmptyStr THEN GenRespond(g, 400, "Document is empty")
     ELSE [g EXCEPT !.pc = "complete", !.text = text, !.completeCalls = @ + 1]

\* the flashcards handler after loadStore, up to its await
flashcardsLoaded(g, docs) ==
  LET at == FindDoc(docs, g.body.docId.id, 1) IN
  IF at = 0 THEN GenRespond(g, 404, "Document not found")
  ELSE [g EXCEPT !.pc = "complete", !.text = flashcardText(docs[at].chunks),
                 !.completeCalls = @ + 1]

\* POST /api/summarize up to its await
SummarizeBegin(docId, maxChars) ==
  /\ gen.pc = "idle" /\ cur = 0
  /\ LET g == [gen EXCEPT !.kind = "summarize", !.body = GenBody(docId, maxChars)]
         g2 == [g EXCEPT !.loaded = TRUE]
         ld == loadStore(disk)
     IN IF ~docId.given
          THEN /\ gen' = GenRespond(g, 400, "Missing docId")
               /\ UNCHANGED <<disk, tmp, lastWrite>>
        ELSE /\ HealStore(ld)
             /\ gen' = IF ld.raised THEN GenRespond(g2, 500, "load failed")
                       ELSE summarizeLoaded(g2, ld.docs)
  /\ UNCHANGED <<req, cur, nextId, started, crashed, reported, tmpFiles, env>>
  /\ UNCHANGED <<streamVars, askVars, pdfVars, clientVars>>

\* POST /api/flashcards up to its await
FlashcardsBegin(docId) ==
  /\ gen.pc = "idle" /\ cur = 0
  /\ LET g == [gen EXCEPT !.kind = "flashcards",
                          !.body = GenBody(docId, [given |-> FALSE, value |-> 0])]
         g2 == [g EXCEPT !.loaded = TRUE]
         ld == loadStore(disk)
     IN IF ~docId.given
          THEN /\ gen' = GenRespond(g, 400, "docId is required")
               /\ UNCHANGED <<disk, tmp, lastWrite>>
        ELSE /\ HealStore(ld)
             /\ gen' = IF ld.raised THEN GenRespond(g2, 500, "Server error")
                       ELSE flashcardsLoaded(g2, ld.docs)
  /\ UNCHANGED <<req, cur, nextId, started, crashed, reported, tmpFiles, env>>
  /\ UNCHANGED <<streamVars, askVars, pdfVars, clientVars>>

\* the completion arrives: the summarize handler answers with it, the
\* flashcards handler parses it
GenCompleted ==
  /\ gen.pc = "complete"
  /\ env.apiKey
  /\ \/ /\ gen.kind = "summarize"
        /\ gen' = [gen EXCEPT !.pc = "done",
                              !.resp = [GenNoResp EXCEPT !.status = 200, !.summary = TRUE]]
     \/ /\ gen.kind = "flashcards"
        /\ \E content \in Contents :
             LET r == flashcardsResponse(content) IN
             gen' = [gen EXCEPT !.pc = "done", !.content = content,
                                !.resp = [GenNoResp EXCEPT !.status = r.status,
                                            !.error = r.error,
                                            !.flashcards = r.flashcards]]
  /\ UNCHANGED <<serverVars, streamVars, askVars, pdfVars, clientVars>>

\* the call to the completion service fails (as every call does that
\* carries no credential): the catch answers 500
GenServiceFails ==
  /\ gen.pc = "complete"
  /\ gen' = GenRespond(gen, 500, IF gen.kind = "summarize" THEN "completion failed"
                                                           ELSE "Server error")
  /\ UNCHANGED <<serverVars, streamVars, askVars, pdfVars, clientVars>>

\* GET /api/health
Health ==
  /\ gen.pc = "idle"
  /\ gen' = GenRespond([gen EXCEPT !.kind = "health"], 200, "")
  /\ UNCHANGED <<serverVars, streamVars, askVars, pdfVars, clientVars>>

\* DELETE /api/docs/:id, as the client sends it: no route of the server
\* matches, and the framework answers 404 (held is bookkeeping: whether the
\* store file holds the document)
DeleteDoc(docId) ==
  /\ gen.pc = "idle"
  /\ gen' = GenRespond([gen EXCEPT !.kind = "delete",
                                   !.body = GenBody([given |-> TRUE, id |-> docId],
                                                    [given |-> FALSE, value |-> 0]),
                                   !.held = InSeq(docId, DocIds(disk.docs))],
                       404, "Cannot DELETE")
  /\ UNCHANGED <<serverVars, streamVars, askVars, pdfVars, clientVars>>

\* the request bodies: id 0 names no stored document
GenDocIds ==
  {[given |-> FALSE, id |-> 0]} \cup {[given |-> TRUE, id |-> i] : i \in {0, 1, 3}}

GenMaxChars ==
  {[given |-> FALSE, value |-> 0]}
    \cup {[given |-> TRUE, value |-> v] :
            v \in {0, 1, MAX_CHARS_PER_CHUNK, MAX_CHARS_PER_CHUNK + 1,
                   2 * MAX_CHARS_PER_CHUNK}}

ReadDisks ==
  { MissingFile,
    EmptyStoreFile,
    [kind |-> "garbage", docs |-> << >>, bytes |-> 40],
    Serialize(<<LegacyDoc>>),
    Serialize(StoreSmall) }

ReadInit == ServerInit(ReadDisks, [apiKey : BOOLEAN, pdftotext : {TRUE}])

\* the requests that are meant to leave the store as it is
ReadNext ==
  \/ Health
  \/ \E r \in Slots : ListDocs(r)
  \/ \E r \in Slots : WriteFinish(r)
  \/ \E r \in Slots : WriteRename(r)
  \/ \E docId \in GenDocIds, maxChars \in GenMaxChars : SummarizeBegin(docId, maxChars)
  \/ \E docId \in GenDocIds : FlashcardsBegin(docId)
  \/ GenCompleted
  \/ GenServiceFails
  \/ \E docId \in {0, 1} : DeleteDoc(docId)
  \/ \E question \in {"", "q", NotAString} :
       AskBegin(question, [given |-> FALSE, ids |-> << >>], [given |-> FALSE, value |-> 0])
  \/ AskQuestionEmbedded
  \/ AskBatchEmbedded
  \/ AskCompleted
  \/ AskServiceFails

SpecRead == ReadInit /\ [][ReadNext]_vars

\* ------------------------------------------------ requests one at a time
\* no handler is between its first and its last step
Quiet ==
  /\ cur = 0
  /\ \A o \in Slots : ~InFlight(req[o])
  /\ gen.pc \in {"idle", "done"}

SeqFileLists == { <<FileGap>>, <<FilePdf, FileA>>, <<FileBig>> }

SeqInit ==
  ServerInit({MissingFile, Serialize(<<OldDoc>>), Serialize([i \in 1..FillCount |-> BigDoc(i)])},
             {[apiKey |-> TRUE, pdftotext |-> TRUE]})

\* every request begins when the one before it has answered
SeqNext ==
  \/ \E r \in Slots, files \in SeqFileLists : Quiet /\ UploadBegin(r, files)
  \/ \E r \in Slots : Quiet /\ ListDocs(r)
  \/ \E r \in Slots : WriteFinish(r)
  \/ \E r \in Slots : WriteRename(r)
  \/ \E r \in Slots : FileDone(r)
  \/ \E docId \in GenDocIds :
       Quiet /\ SummarizeBegin(docId, [given |-> FALSE, value |-> 0])
  \/ GenCompleted
  \/ GenServiceFails

SpecSeq == SeqInit /\ [][SeqNext]_vars

\* ------------------------------------------------------- uploads that overlap
RaceFileLists == { <<FilePdf>>, <<FileGap>>, <<FileBin, FileEmpty>> }

RaceInit ==
  ServerInit({EmptyStoreFile, [kind |-> "garbage", docs |-> << >>, bytes |-> 40],
              Serialize(<<LegacyDoc>>)},
             [apiKey : {TRUE}, pdftotext : BOOLEAN])

\* upload requests only, started at any time
RaceNext ==
  \/ \E r \in Slots, files \in RaceFileLists : UploadBegin(r, files)
  \/ \E r \in Slots : WriteFinish(r)
  \/ \E r \in Slots : WriteRename(r)
  \/ \E r \in Slots : FileDone(r)

SpecRace == RaceInit /\ [][RaceNext]_vars

\* ----------------------------------------------- one PDF extraction with its timer
\* resolve(chunks) or reject(e) of the promise: only the first call settles it
Settle(p, outcome, chunks) ==
  [p EXCEPT !.settles = @ + 1,
            !.outcome = IF @ = "pending" THEN outcome ELSE @,
            !.chunks = IF p.outcome = "pending" THEN chunks ELSE @]

\* clearTimeout(timer)
clearTimeout(p) == [p EXCEPT !.timer = IF @ = "armed" THEN "cleared" ELSE @]

\* try { child.kill(signal) } catch {}: a running child ends
Kill(p, signal) ==
  [p EXCEPT !.signals = Append(@, signal),
            !.child = IF @ = "running" THEN "killed" ELSE @]

\* mutant: the timer's callback does not kill the child
OnTimeoutNoKill(p) == [p EXCEPT !.timer = "fired"]

\* the timer's callback
OnTimeout(p) == Kill([p EXCEPT !.timer = "fired"], "SIGKILL")

\* the then callback of streamReadableToChunks(rs)
OnResolved(p, chunks) ==
  Settle(Kill(clearTimeout([p EXCEPT !.reacted = TRUE]), "SIGTERM"), "resolved", chunks)

\* the catch callback
OnRejected(p) ==
  Settle(Kill(clearTimeout([p EXCEPT !.reacted = TRUE]), "SIGKILL"), "rejected", << >>)

\* child.on('error')
OnChildError(p) ==
  Settle(clearTimeout([p EXCEPT !.errorEvent = FALSE]), "rejected", << >>)

PdfTexts ==
  { Letters(1, n) : n \in {0, MAX_CHARS_PER_CHUNK + 1, 50000, MAX_TEXT_PER_FILE + OverLen} }

PdfInit ==
  /\ inp \in [path : {"pdf"}, text : PdfTexts]
  /\ rs = [rest |-> inp.text, closed |-> FALSE, late |-> FALSE]
  /\ st = StreamInitState
  /\ result = [state |-> "pending", chunks |-> << >>, built |-> 0]
  /\ disk = MissingFile
  /\ tmp = MissingFile
  /\ req = [r \in Slots |-> IdleReq]
  /\ cur = 0
  /\ nextId = 1
  /\ started = 0
  /\ crashed = FALSE
  /\ tmpFiles = {}
  /\ env \in [apiKey : {TRUE}, pdftotext : BOOLEAN]
  /\ lastWrite = [old |-> MissingFile, new |-> MissingFile, by |-> 0]
  /\ reported = {}
  /\ ask = AskIdle
  /\ gen = GenIdle
  /\ pdf = PdfIdle
  /\ quiz = QuizIdle
  /\ gloss = GlossIdle

\* extractChunksFromPdfPath(p): it throws if the tool is missing; else the
\* subprocess is spawned (which may fail, and then emits 'error'), the timer
\* is armed and the stream's handlers are attached
PdfStart ==
  /\ pdf.outcome = "none"
  /\ IF ~env.pdftotext
       THEN pdf' = [pdf EXCEPT !.outcome = "rejected"]
       ELSE \E ok \in BOOLEAN :
              pdf' = [pdf EXCEPT !.child = IF ok THEN "running" ELSE "failed",
                                 !.errorEvent = ~ok,
                                 !.timer = "armed",
                                 !.outcome = "pending"]
  /\ UNCHANGED <<streamVars, serverVars, askVars, genVars, clientVars>>

\* the subprocess writes to the pipe: a 'data' event
PdfData(n) ==
  /\ pdf.child \in {"running", "exited", "killed"}
  /\ StreamData(n)

PdfLateData(n) ==
  /\ pdf.child \in {"running", "exited", "killed"}
  /\ StreamLateData(n)

\* the subprocess ends by itself
PdfChildExit ==
  /\ pdf.child = "running"
  /\ pdf' = [pdf EXCEPT !.child = "exited"]
  /\ UNCHANGED <<streamVars, serverVars, askVars, genVars, clientVars>>

\* the pipe closes: the subprocess is gone, or the stream was destroyed
PdfStdoutClose ==
  /\ pdf.child \in {"failed", "exited", "killed"} \/ (pdf.child = "running" /\ st.destroyed)
  /\ StreamClose

\* 'error' on the pipe
PdfStreamError ==
  /\ pdf.child # "none"
  /\ StreamError

\* PDF_TIMEOUT_MS have passed (an 'error' event of a failed spawn is emitted
\* on the next tick, before any timer)
PdfTimeout ==
  /\ pdf.timer = "armed" /\ ~pdf.errorEvent
  /\ pdf' = OnTimeout(pdf)
  /\ UNCHANGED <<streamVars, serverVars, askVars, genVars, clientVars>>

PdfThen ==
  /\ pdf.outcome # "none" /\ ~pdf.reacted /\ result.state = "resolved"
  /\ pdf' = OnResolved(pdf, result.chunks)
  /\ UNCHANGED <<streamVars, serverVars, askVars, genVars, clientVars>>

PdfCatch ==
  /\ pdf.outcome # "none" /\ ~pdf.reacted /\ result.state = "rejected"
  /\ pdf' = OnRejected(pdf)
  /\ UNCHANGED <<streamVars, serverVars, askVars, genVars, clientVars>>

PdfChildError ==
  /\ pdf.errorEvent
  /\ pdf' = OnChildError(pdf)
  /\ UNCHANGED <<streamVars, serverVars, askVars, genVars, clientVars>>

PdfNext ==
  \/ PdfStart
  \/ \E n \in PieceSizes : PdfData(n)
  \/ \E n \in PieceSizes : PdfLateData(n)
  \/ PdfChildExit
  \/ PdfStdoutClose
  \/ PdfStreamError
  \/ PdfTimeout
  \/ PdfThen
  \/ PdfCatch
  \/ PdfChildError

\* The event loop runs every callback that is due: the call itself, the
\* timer, the close of a pipe whose writer is gone, the promise's reactions
\* and a pending 'error' event.  Nothing makes the subprocess write or end.
SpecPdf ==
  /\ PdfInit /\ [][PdfNext]_vars
  /\ WF_vars(PdfStart)
  /\ WF_vars(PdfTimeout)
  /\ WF_vars(PdfStdoutClose)
  /\ WF_vars(PdfThen)
  /\ WF_vars(PdfCatch)
  /\ WF_vars(PdfChildError)

\* --------------------------------------------------------- client: the quiz
\* the server at rest and no extraction, for the specifications of the client
ClientQuiet ==
  /\ inp = [path |-> "txt", text |-> EmptyStr]
  /\ rs = [rest |-> EmptyStr, closed |-> FALSE, late |-> FALSE]
  /\ st = StreamInitState
  /\ result = [state |-> "pending", chunks |-> << >>, built |-> 0]
  /\ ServerQuiet

\* what a quiz response carries: res.questions is missing, or a list of n
\* questions
QuizPayloads ==
  {[given |-> FALSE, n |-> 0]} \cup {[given |-> TRUE, n |-> n] : n \in 0..MaxQuestions}

\* the questions of a response to request r, as the server sends them:
\* without selectedIndex and answered
Questions(r, res) ==
  IF res.given
    THEN [i \in 1..res.n |->
            [by |-> r, correctIndex |-> 0, selectedIndex |-> Undefined, answered |-> FALSE]]
    ELSE << >>

\* mutant: the test of quizSubmitted is missing
selectQuizAnswerUnlocked(q, questionIndex, optionIndex) ==
  [q EXCEPT !.quizQuestions[questionIndex + 1].selectedIndex = optionIndex]

\* selectQuizAnswer(questionIndex, optionIndex)
selectQuizAnswer(q, questionIndex, optionIndex) ==
  IF q.quizSubmitted THEN q
  ELSE [q EXCEPT !.quizQuestions[questionIndex + 1].selectedIndex = optionIndex]

\* generateQuiz() with selectedQuizDocId() = docId ("" for null): the request
\* is sent by subscribe
GenerateQuiz(docId) ==
  /\ quiz.issued < MaxQuizRequests
  /\ quiz' = IF docId = ""
               THEN [quiz EXCEPT !.quizError = "Please select a document first.",
                                 !.lastOp = "generateQuiz"]
               ELSE [quiz EXCEPT !.quizError = "",
                                 !.isLoadingQuiz = TRUE,
                                 !.quizQuestions = << >>,
                                 !.quizSubmitted = FALSE,
                                 !.pending = @ \cup {quiz.issued + 1},
                                 !.issued = @ + 1,
                                 !.lastOp = "generateQuiz"]
  /\ UNCHANGED <<streamVars, serverVars, askVars, genVars, pdfVars, gloss>>

\* the next callback of request r
QuizResponse(r, res) ==
  /\ r \in quiz.pending
  /\ quiz' = [quiz EXCEPT !.quizQuestions = Questions(r, res),
                          !.isLoadingQuiz = FALSE,
                          !.pending = @ \ {r},
                          !.lastOp = "next"]
  /\ UNCHANGED <<streamVars, serverVars, askVars, genVars, pdfVars, gloss>>

\* the error callback of request r
QuizFailure(r) ==
  /\ r \in quiz.pending
  /\ quiz' = [quiz EXCEPT !.quizError = "Something went wrong generating the quiz.",
                          !.isLoadingQuiz = FALSE,
                          !.pending = @ \ {r},
                          !.lastOp = "error"]
  /\ UNCHANGED <<streamVars, serverVars, askVars, genVars, pdfVars, gloss>>

\* a click on option optionIndex of question questionIndex (from 0), as the
\* page offers them
SelectQuizAnswer(questionIndex, optionIndex) ==
  /\ questionIndex < Len(quiz.quizQuestions)
  /\ quiz' = [selectQuizAnswer(quiz, questionIndex, optionIndex)
                EXCEPT !.lastOp = "selectQuizAnswer"]
  /\ UNCHANGED <<streamVars, serverVars, askVars, genVars, pdfVars, gloss>>

\* submitQuiz()
SubmitQuiz ==
  /\ LET questions == quiz.quizQuestions
         allAnswered == \A i \in 1..Len(questions) : questions[i].selectedIndex # Undefined
     IN quiz' = IF ~allAnswered
                  THEN [quiz EXCEPT !.quizError =
                                       "Please answer all questions before submitting.",
                                    !.lastOp = "submitQuiz"]
                  ELSE [quiz EXCEPT !.quizQuestions =
                                       [i \in 1..Len(questions) |->
                                          [questions[i] EXCEPT !.answered = TRUE]],
                                    !.quizSubmitted = TRUE,
                                    !.quizError = "",
                                    !.lastOp = "submitQuiz"]
  /\ UNCHANGED <<streamVars, serverVars, askVars, genVars, pdfVars, gloss>>

\* resetQuiz()
ResetQuiz ==
  /\ quiz' = [quiz EXCEPT !.quizQuestions = << >>,
                          !.quizSubmitted = FALSE,
                          !.quizError = "",
                          !.lastOp = "resetQuiz"]
  /\ UNCHANGED <<streamVars, serverVars, askVars, genVars, pdfVars, gloss>>

QuizInit == ClientQuiet

QuizNext ==
  \/ \E docId \in {"", "d1"} : GenerateQuiz(docId)
  \/ \E r \in 1..MaxQuizRequests, res \in QuizPayloads : QuizResponse(r, res)
  \/ \E r \in 1..MaxQuizRequests : QuizFailure(r)
  \/ \E questionIndex \in 0..(MaxQuestions - 1), optionIndex \in 0..(MaxOptions - 1) :
       SelectQuizAnswer(questionIndex, optionIndex)
  \/ SubmitQuiz
  \/ ResetQuiz

SpecQuiz == QuizInit /\ [][QuizNext]_vars

\* ----------------------------------------------------- client: the glossary
\* what a glossary response carries: res.terms is missing, or a list of n
\* terms
GlossaryPayloads == {[given |-> FALSE, n |-> 0], [given |-> TRUE, n |-> 0], [given |-> TRUE, n |-> 2]}

\* MainPageComponent.generateGlossary() with selectedGlossaryDocId() = docId
\* ("" for null), and AnalysisService.generateGlossary(docId), subscribed at
\* once
GenerateGlossary(docId) ==
  /\ gloss.issued < MaxGlossaryRequests
  /\ gloss' = IF docId = ""
                THEN [gloss EXCEPT !.glossaryError = "Please select a document first.",
                                   !.lastOp = "generateGlossary"]
                ELSE [gloss EXCEPT !.glossaryError = "",
                                   !.glossaryLoading = TRUE,
                                   !.glossary = NoTerms,
                                   !.selectedDocId = docId,
                                   !.pending = @ \cup {[no |-> gloss.issued + 1,
                                                        docId |-> docId]},
                                   !.issued = @ + 1,
                                   !.lastOp = "generateGlossary"]
  /\ UNCHANGED <<streamVars, serverVars, askVars, genVars, pdfVars, quiz>>

\* tap: the response of request r arrives
GlossaryResponse(r, res) ==
  /\ r \in gloss.pending
  /\ gloss' = [gloss EXCEPT !.glossary = IF res.given /\ res.n > 0
                                           THEN [by |-> r.no, docId |-> r.docId, n |-> res.n]
                                           ELSE NoTerms,
                            !.glossaryLoading = FALSE,
                            !.pending = @ \ {r},
                            !.lastOp = "tap"]
  /\ UNCHANGED <<streamVars, serverVars, askVars, genVars, pdfVars, quiz>>

\* catchError: request r fails
GlossaryFailure(r) ==
  /\ r \in gloss.pending
  /\ gloss' = [gloss EXCEPT !.glossaryError = "Failed to generate glossary.",
                            !.glossaryLoading = FALSE,
                            !.pending = @ \ {r},
                            !.lastOp = "catchError"]
  /\ UNCHANGED <<streamVars, serverVars, askVars, genVars, pdfVars, quiz>>

GlossaryInit == ClientQuiet

GlossaryNext ==
  \/ \E docId \in {"", "d1", "d2"} : GenerateGlossary(docId)
  \/ \E r \in gloss.pending, res \in GlossaryPayloads : GlossaryResponse(r, res)
  \/ \E r \in gloss.pending : GlossaryFailure(r)

SpecGlossary == GlossaryInit /\ [][GlossaryNext]_vars

\* ------------------------------------------------------- extraction properties
\* the extraction has resolved after the whole source was delivered (no early
\* end of a pipe)
Delivered == result.state = "resolved" /\ (inp.path = "docx" \/ rs.rest = EmptyStr)

\* first chunk whole, every later chunk without its first CHUNK_OVERLAP
\* characters, concatenated in id order
RECURSIVE JoinOverlaps(_, _)
JoinOverlaps(chunks, i) ==
  IF i > Len(chunks) THEN EmptyStr
  ELSE Concat(IF i = 1 THEN chunks[1] ELSE SliceFrom(chunks[i], CHUNK_OVERLAP),
              JoinOverlaps(chunks, i + 1))

CeilDiv(a, b) == (a + b - 1) \div b

Step == MAX_CHARS_PER_CHUNK - CHUNK_OVERLAP

\* the inputs claims C3 and C4 speak of
PlainInput ==
  /\ Delivered
  /\ WsFree(inp.text)
  /\ StrLen(inp.text) <= MAX_TEXT_PER_FILE
  /\ Len(result.chunks) < MAX_CHUNKS_PER_DOC

\* C3 (as claimed): for whitespace-free text of length at most the character
\* ceiling that stays below the chunk cap, the first chunk followed by every
\* later chunk minus its first CHUNK_OVERLAP characters is the original text,
\* on the streaming path and on the rich-document path.
C3_RoundTrip == PlainInput => JoinOverlaps(result.chunks, 1) = inp.text

\* C4 (as claimed): whitespace-free text of length L > CHUNK_OVERLAP within
\* the ceiling and below the cap yields exactly ceil((L - O) / (W - O)) chunks.
C4_CeilCount ==
  (PlainInput /\ StrLen(inp.text) > CHUNK_OVERLAP)
    => Len(result.chunks) = CeilDiv(StrLen(inp.text) - CHUNK_OVERLAP, Step)

\* C4 (amended): such a text yields floor((L - O) / (W - O)) + 1 chunks, one
\* more than the claimed count when L - O is a multiple of W - O (the residual
\* overlap is flushed as a chunk of its own); a streamed text of exactly the
\* ceiling length ends without the final flush and yields
\* floor((L - W) / (W - O)) + 1; a 50,000-character text yields 18.
C4_ChunkCount ==
  (PlainInput /\ StrLen(inp.text) > CHUNK_OVERLAP)
    => LET L == StrLen(inp.text) IN
       /\ Len(result.chunks) =
            IF inp.path # "docx" /\ L >= MAX_TEXT_PER_FILE
              THEN (L - MAX_CHARS_PER_CHUNK) \div Step + 1
              ELSE (L - CHUNK_OVERLAP) \div Step + 1
       /\ L = 50000 => Len(result.chunks) = 18

C4_Witness ==
  /\ Delivered /\ inp.path = "txt"
  /\ inp.text = Letters(1, 50000)
  /\ Len(result.chunks) = 18

\* C5 (as claimed): when the extractor stops taking input with the chunk
\* count below the cap, the non-empty trimmed accumulator is the final chunk.
C5_TailFlushed ==
  (result.state = "resolved" /\ inp.path # "docx")
    => LET tail == Trim(st.buf) IN
       \/ tail = EmptyStr
       \/ Len(st.chunks) > 0 /\ st.chunks[Len(st.chunks)] = tail
       \/ Len(st.chunks) >= MAX_CHUNKS_PER_DOC

\* C6: the characters appended to the accumulator never exceed
\* MAX_TEXT_PER_FILE whatever the source length; once the ceiling or the cap
\* is reached the stream is destroyed, and from then on no event changes the
\* accumulator, the total or the chunk list.
C6_Ceiling ==
  /\ [](/\ st.total <= MAX_TEXT_PER_FILE
        /\ StrLen(st.buf) <= st.total
        /\ (st.total >= MAX_TEXT_PER_FILE \/ Len(st.chunks) >= MAX_CHUNKS_PER_DOC)
              => (st.ended /\ st.destroyed))
  /\ [][st.ended => st' = st]_vars

C6_Witness ==
  /\ StrLen(inp.text) > MAX_TEXT_PER_FILE
  /\ st.ended /\ st.total = MAX_TEXT_PER_FILE
  /\ rs.late

\* C14 (as claimed): a PDF extraction that ends after the output of the
\* subprocess has built chunks, because the subprocess exited, was killed or
\* failed, yields those chunks and does not fail.
C14_PartialOutputKept ==
  (inp.path = "pdf" /\ result.state # "pending" /\ result.built > 0)
    => (result.state = "resolved" /\ Len(result.chunks) = result.built)

\* ----------------------------------------------------------- server properties
\* an upload request that has answered 200
Uploaded(q) == q.kind = "upload" /\ q.pc = "done" /\ q.resp.status = 200

\* the files of a request that were ingested: extraction succeeded with at
\* least one chunk
RECURSIVE Ingested(_, _)
Ingested(q, i) ==
  IF i > Len(q.made) THEN << >>
  ELSE (IF q.made[i].kind = "chunks" /\ q.made[i].chunks # << >>
          THEN <<[name |-> q.files[i].name, texts |-> q.made[i].chunks]>>
          ELSE << >>)
       \o Ingested(q, i + 1)

ChunkTexts(d) == [j \in 1..Len(d.chunks) |-> d.chunks[j].text]

\* C1 (as claimed): after an upload that overlapped no other request and was
\* not aborted, the store file holds the documents it held before, in order,
\* followed by one new document per ingested file in the order sent, and the
\* response lists exactly those new documents with id, name and chunkCount.
C1_UploadAppends ==
  \A r \in Slots :
    LET q == req[r] IN
    (Uploaded(q) /\ ~q.overlap /\ lastWrite.by = q.no)
      => LET exp == Ingested(q, 1)
             n == Len(q.heldIds)
         IN /\ disk.kind = "json"
            /\ Len(disk.docs) = n + Len(exp)
            /\ Len(q.resp.uploaded) = Len(exp)
            /\ \A i \in 1..n : disk.docs[i].id = q.heldIds[i]
            /\ \A i \in 1..Len(exp) :
                 LET d == disk.docs[n + i] IN
                 /\ d.name = exp[i].name
                 /\ ChunkTexts(d) = exp[i].texts
                 /\ q.resp.uploaded[i] =
                      [id |-> d.id, name |-> d.name, chunkCount |-> d.chunkCount]

WellFormedDoc(d) ==
  /\ d.chunkCount = Len(d.chunks)
  /\ \A j \in 1..Len(d.chunks) : d.chunks[j].id = j - 1
  /\ d.chunkCount <= MAX_CHUNKS_PER_DOC

AllWellFormed(docs) == \A i \in 1..Len(docs) : WellFormedDoc(docs[i])

\* C2: every document of the store file, of the temporary file and of every
\* request's store has chunk ids 0..chunkCount-1 in order, chunkCount equal
\* to the length of its chunk list, and chunkCount at most MAX_CHUNKS_PER_DOC.
C2_ChunkIds ==
  /\ AllWellFormed(disk.docs)
  /\ AllWellFormed(tmp.docs)
  /\ \A r \in Slots : AllWellFormed(req[r].store)

C2_Witness ==
  \E r \in Slots :
    /\ Uploaded(req[r]) /\ Len(req[r].out) > 0
    /\ \E i \in 1..Len(disk.docs) :
         disk.docs[i].id = req[r].out[1].id /\ disk.docs[i].chunkCount >= 2

\* a file loadStore does not accept as a store
Broken(f) == f.kind # "json" \/ f.bytes = 0 \/ f.bytes > MAX_STORE_BYTES

\* request r starts in this step and gets as far as calling loadStore
Began(r) ==
  /\ started' = started + 1
  /\ req'[r].no = started'
  /\ ~(req'[r].pc = "done" /\ req'[r].resp.status = 400)

\* what loadStore returned to the handler
Returned(q) == IF q.kind = "list" THEN q.resp.docs ELSE q.store

\* C7: loadStore never raises; on a missing, zero-byte, oversized, blank or
\* unparseable file it rewrites the file as a valid empty store before it
\* returns the empty store; a load of that file then returns the empty store
\* and writes nothing.
C7_SelfHeal ==
  /\ [](\A r \in Slots : req[r].resp.status # 500)
  /\ [][\A r \in Slots :
          (Began(r) /\ Broken(disk)) => (req'[r].healed /\ req'[r].pc = "write")]_vars
  /\ [][\A r \in Slots :
          (req[r].pc = "write" /\ req[r].w.ret = "load" /\ req'[r].pc # "write"
             /\ req'[r].kind # "none")
            => (disk' = EmptyStoreFile /\ Returned(req'[r]) = << >>)]_vars
  /\ [][\A r \in Slots :
          (Began(r) /\ disk = EmptyStoreFile)
            => (/\ ~req'[r].healed /\ req'[r].pc # "write"
                /\ Returned(req'[r]) = << >>
                /\ disk' = disk /\ tmp' = tmp)]_vars

\* a load healed an unparseable file, and a later load found the empty store
C7_Witness ==
  /\ lastWrite.old.kind = "garbage" /\ lastWrite.new = EmptyStoreFile
  /\ disk = EmptyStoreFile
  /\ \E r \in Slots :
       /\ req[r].no > lastWrite.by /\ req[r].kind = "list" /\ req[r].pc = "done"
       /\ ~req[r].healed /\ req[r].resp.status = 200 /\ req[r].resp.docs = << >>

\* C8 (as claimed): the store file never exceeds MAX_STORE_BYTES.
C8_StoreWithinCeiling == disk.bytes <= MAX_STORE_BYTES

\* C9: at every step of a save, and after a crash at any of them, the store
\* file is the complete previous content or the complete new content.
C9_AtomicSave ==
  /\ disk.kind # "partial"
  /\ disk \in {lastWrite.old, lastWrite.new}

\* the process died between the write of the temporary file and the rename
C9_Witness ==
  /\ crashed
  /\ tmp.kind = "json" /\ tmp = lastWrite.new
  /\ disk = lastWrite.old /\ lastWrite.old # lastWrite.new

\* the ids of the documents the request's loadStore returned
SnapshotIds(q) == IF q.healed THEN << >> ELSE q.heldIds

OutIds(q) == [i \in 1..Len(q.out) |-> q.out[i].id]

\* C10: when another upload saved between this upload's load and its save,
\* the store after this upload's save holds this upload's snapshot followed
\* by its own documents and none of the documents the other upload saved,
\* though both answered 200.
C10_LastWriterWins ==
  \A r \in Slots :
    LET q == req[r] IN
    (Uploaded(q) /\ lastWrite.by = q.no /\ q.clobbered # {})
      => /\ disk.kind = "json"
         /\ DocIds(disk.docs) = SnapshotIds(q) \o OutIds(q)
         /\ \A i \in 1..Len(disk.docs) : disk.docs[i].id \notin q.clobbered

C10_Witness ==
  \E r \in Slots, o \in Slots :
    /\ Uploaded(req[r]) /\ lastWrite.by = req[r].no /\ req[r].clobbered # {}
    /\ Uploaded(req[o]) /\ o # r
    /\ \A i \in 1..Len(req[o].out) : req[o].out[i].id \in req[r].clobbered
    /\ Len(req[o].out) > 0 /\ Len(req[r].out) > 0

\* ------------------------------------------------- upload failure properties
\* an upload request that has answered, whatever the status
Answered(q) == q.kind = "upload" /\ q.pc = "done"

\* C11 (as claimed): once an upload request has answered, none of the
\* temporary files of the files it received exists any more.
C11_TempFilesRemoved ==
  \A r \in Slots :
    Answered(req[r])
      => \A i \in 1..Len(req[r].files) : <<req[r].no, i>> \notin tmpFiles

\* the positions of the files of q whose extraction did not fail
Kept(q) ==
  SelectSeq([i \in 1..Len(q.made) |-> i], LAMBDA i : q.made[i].kind # "error")

\* the documents the upload loop builds from files with the extraction
\* outcomes outs, taking ids from id on
RECURSIVE LoopDocs(_, _, _, _, _)
LoopDocs(files, outs, i, id, now) ==
  IF i > Len(files) THEN << >>
  ELSE IF FileVerdict(outs[i]) = "add"
    THEN <<MakeDoc(id, files[i].name, now, outs[i].chunks)>>
           \o LoopDocs(files, outs, i + 1, id + 1, now)
  ELSE LoopDocs(files, outs, i + 1, id, now)

\* a file of q failed extraction, and no file met a missing tool
FailedSome(q) ==
  /\ Answered(q)
  /\ \E i \in 1..Len(q.made) : q.made[i].kind = "error"
  /\ \A i \in 1..Len(q.made) : q.made[i].kind # "toolmissing"

\* C12: an upload with a file whose extraction failed (other than by the
\* missing tool) answers 200, and the documents it adds to the store and
\* lists in its response are those the same request without the failed
\* files adds.
C12_FailureIsolated ==
  \A r \in Slots :
    LET q == req[r] IN
    FailedSome(q)
      => /\ q.resp.status = 200
         /\ Len(q.made) = Len(q.files)
         /\ (~q.overlap /\ lastWrite.by = q.no)
              => LET keep == Kept(q)
                     n == Len(SnapshotIds(q))
                     first == IF disk.kind = "json" /\ Len(disk.docs) > n
                                THEN disk.docs[n + 1].id ELSE 0
                     docs == LoopDocs([j \in 1..Len(keep) |-> q.files[keep[j]]],
                                      [j \in 1..Len(keep) |-> q.made[keep[j]]],
                                      1, first, q.no)
                 IN /\ disk.kind = "json"
                    /\ SubSeq(disk.docs, n + 1, Len(disk.docs)) = docs
                    /\ q.resp.uploaded =
                         [j \in 1..Len(docs) |->
                            [id |-> docs[j].id, name |-> docs[j].name,
                             chunkCount |-> docs[j].chunkCount]]

\* x.bin failed and a.txt, sent after it, is in the store
C12_Witness ==
  \E r \in Slots :
    LET q == req[r] IN
    /\ FailedSome(q) /\ ~q.overlap /\ lastWrite.by = q.no
    /\ q.made[1].kind = "error" /\ Len(q.files) = 2
    /\ Len(q.resp.uploaded) = 1
    /\ disk.docs[Len(disk.docs)].name = q.files[2].name

\* C13 (as claimed): when an upload reaches a PDF file and the tool is
\* missing, no subprocess is started for it, the request answers 501
\* PDFTOTEXT_MISSING with a remediation string, no later file is processed,
\* and the store holds the documents it held before the request.
C13_ToolMissingAborts ==
  \A r \in Slots :
    LET q == req[r] IN
    (Answered(q) /\ q.made # << >> /\ q.made[Len(q.made)].kind = "toolmissing")
      => /\ q.resp.status = 501 /\ q.resp.error = "PDFTOTEXT_MISSING" /\ q.resp.fix # ""
         /\ Len(q.made) \notin q.spawned
         /\ q.idx = Len(q.made)
         /\ (~q.overlap /\ lastWrite.by <= q.no) => DocIds(disk.docs) = q.heldIds

\* -------------------------------------------------------------- ask properties

\* the request names documents
NamesDocs(a) == a.body.docIds.given /\ Len(a.body.docIds.ids) > 0

\* the handler is past the scope check
Retrieving(a) == a.pc \in {"qembed", "batch", "complete"} \/ (a.pc = "done" /\ a.resp.status # 400)

Answered200(a) == a.pc = "done" /\ a.resp.status = 200

\* a request with a question whose docIds name only documents that are not
\* in the store, or whose store holds no document
EmptyScopeAsked(a) ==
  /\ a.pc # "idle" /\ QuestionOk(a.body.question)
  /\ \/ a.storeIds = << >>
     \/ NamesDocs(a) /\ \A j \in 1..Len(a.body.docIds.ids) :
                          ~InSeq(a.body.docIds.ids[j], a.storeIds)

\* C15: an ask request whose scope resolves to nothing answers 400 and calls
\* neither the embedding nor the completion service.
C15_EmptyScopeNoCalls ==
  EmptyScopeAsked(ask)
    => /\ ask.pc = "done" /\ ask.resp.status = 400
       /\ ask.embedCalls = 0 /\ ask.completeCalls = 0

\* docIds named only an unknown document while the store held documents
C15_Witness ==
  /\ EmptyScopeAsked(ask) /\ ask.storeIds # << >> /\ NamesDocs(ask)
  /\ ask.pc = "done" /\ disk.docs # << >>

\* C16: with a non-empty docIds every item scanned and every citation is of
\* a document named in docIds and held by the store; with docIds absent or
\* empty the scope is every stored document.
C16_ScopeHonoured ==
  Retrieving(ask)
    => IF NamesDocs(ask)
         THEN /\ \A i \in 1..Len(ask.scope) :
                   /\ InSeq(ask.scope[i].id, ask.body.docIds.ids)
                   /\ InSeq(ask.scope[i].id, ask.storeIds)
              /\ \A i \in 1..Len(ask.all) : InSeq(ask.all[i].docId, ask.body.docIds.ids)
              /\ \A i \in 1..Len(ask.resp.citations) :
                   /\ InSeq(ask.resp.citations[i].docId, ask.body.docIds.ids)
                   /\ InSeq(ask.resp.citations[i].docId, ask.storeIds)
       ELSE [i \in 1..Len(ask.scope) |-> ask.scope[i].id] = ask.storeIds

\* documents 3 and 1 of three were named, and both are cited
C16_Witness ==
  /\ Answered200(ask) /\ ask.body.docIds.ids = <<3, 1>> /\ Len(ask.storeIds) = 3
  /\ \E i, j \in 1..Len(ask.resp.citations) :
       ask.resp.citations[i].docId = 3 /\ ask.resp.citations[j].docId = 1

\* the chunks the scope's documents hold, positions lo..hi
RECURSIVE ScopeChunks(_, _, _)
ScopeChunks(scope, lo, hi) ==
  IF lo > hi THEN 0
  ELSE IF lo = hi THEN scope[lo].n
  ELSE LET mid == (lo + hi) \div 2
       IN ScopeChunks(scope, lo, mid) + ScopeChunks(scope, mid + 1, hi)

\* the chunks the packs hold, positions lo..hi
RECURSIVE ScopeTook(_, _, _)
ScopeTook(scope, lo, hi) ==
  IF lo > hi THEN 0
  ELSE IF lo = hi THEN scope[lo].took
  ELSE LET mid == (lo + hi) \div 2
       IN ScopeTook(scope, lo, mid) + ScopeTook(scope, mid + 1, hi)

\* C17 (as claimed): no document contributes more than
\* ceil(MAX_CHUNKS_FOR_ASK / N) chunks to the items embedded and ranked, and
\* every document with a chunk contributes at least one.
C17_PerDocCeil ==
  Retrieving(ask)
    => \A i \in 1..Len(ask.scope) :
         /\ ask.scope[i].took <= CeilDiv(MAX_CHUNKS_FOR_ASK, Len(ask.scope))
         /\ ask.scope[i].n >= 1 => ask.scope[i].took >= 1

\* C17 (amended): when the scope holds more than MAX_CHUNKS_FOR_ASK chunks,
\* each document contributes its first max(1, floor(MAX_CHUNKS_FOR_ASK / N))
\* chunks, or all it has if fewer, which is at most
\* ceil(MAX_CHUNKS_FOR_ASK / N); otherwise every document contributes all its
\* chunks, however many; a document with a chunk always contributes one.
C17_FairShare ==
  Retrieving(ask)
    => LET N == Len(ask.scope)
           total == ScopeChunks(ask.scope, 1, N)
       IN /\ Len(ask.all) = ScopeTook(ask.scope, 1, N)
          /\ \A i \in 1..N :
               LET d == ask.scope[i] IN
               /\ d.n >= 1 => d.took >= 1
               /\ IF total <= MAX_CHUNKS_FOR_ASK THEN d.took = d.n
                  ELSE /\ d.took = Min(d.n, Max(1, MAX_CHUNKS_FOR_ASK \div N))
                       /\ d.took <= CeilDiv(MAX_CHUNKS_FOR_ASK, N)

\* a scope over the cap, in which a document lost chunks
C17_Witness ==
  /\ Retrieving(ask)
  /\ ScopeChunks(ask.scope, 1, Len(ask.scope)) > MAX_CHUNKS_FOR_ASK
  /\ \E i \in 1..Len(ask.scope) : 1 < ask.scope[i].took /\ ask.scope[i].took < ask.scope[i].n

\* C18: the ranked list is in non-increasing score order, items of equal
\* score in scan order, and the citations follow it.
C18_Ranked ==
  (ask.pc = "complete" \/ Answered200(ask))
    => /\ \A i \in 1..(Len(ask.top) - 1) :
            \/ ask.top[i].score > ask.top[i + 1].score
            \/ /\ ask.top[i].score = ask.top[i + 1].score
               /\ ask.top[i].pos < ask.top[i + 1].pos
       /\ \A i \in 1..(Len(ask.resp.citations) - 1) :
            ask.resp.citations[i].score >= ask.resp.citations[i + 1].score

\* an answer whose ranking has a tie, a drop, and an item moved ahead of an
\* earlier one
C18_Witness ==
  /\ Answered200(ask) /\ Len(ask.resp.citations) >= 3
  /\ \E i \in 1..(Len(ask.top) - 1) : ask.top[i].score = ask.top[i + 1].score
  /\ \E i \in 1..(Len(ask.top) - 1) : ask.top[i].score > ask.top[i + 1].score
  /\ \E i \in 1..(Len(ask.top) - 1) : ask.top[i].pos > ask.top[i + 1].pos

\* C19 (as claimed): the citations are at most k, min(k, items) of them for
\* k >= 0, with k = 6 when the request leaves it out.
C19_AtMostK ==
  Answered200(ask)
    => LET k == KOf(ask.body)
           n == Len(ask.resp.citations)
       IN /\ n <= k
          /\ k >= 0 => n = Min(k, Len(ask.all))

\* C20: the citations are labelled 1..n, and citation i carries the docId,
\* name, chunkId and score of the chunk whose text is in block 'Source i'.
C20_LabelsAligned ==
  Answered200(ask)
    => /\ Len(ask.resp.citations) = Len(ask.blocks)
       /\ \A i \in 1..Len(ask.resp.citations) :
            LET c == ask.resp.citations[i]
                b == ask.blocks[i]
                it == ask.all[ask.top[i].pos]
            IN /\ c.label = i /\ b.source = i
               /\ b.text = it.text
               /\ c.docId = it.docId /\ c.chunkId = it.chunkId /\ c.name = it.name
               /\ c.score = ask.top[i].score /\ b.score = c.score
               /\ b.name = c.name /\ b.chunkId = c.chunkId

\* an answer citing chunks of two documents
C20_Witness ==
  /\ Answered200(ask) /\ Len(ask.resp.citations) >= 2
  /\ ask.resp.citations[1].docId # ask.resp.citations[2].docId
  /\ ask.top[1].pos > 1

\* ------------------------------------------- service and request properties
EmbeddingFailed(a) == a.pc = "done" /\ a.resp.error = "embedding failed"

\* C21: when a call to the embedding service fails, for the question or for
\* any batch of chunks, the ask request answers 5xx with no answer and no
\* citations, and the completion service is never called.
C21_EmbeddingFailureFails ==
  EmbeddingFailed(ask)
    => /\ ask.resp.status >= 500 /\ ask.resp.status < 600
       /\ ~ask.resp.answered
       /\ ask.resp.citations = << >>
       /\ ask.top = << >>
       /\ ask.completeCalls = 0

\* a later batch failed, after earlier batches were embedded
C21_Witness ==
  /\ EmbeddingFailed(ask)
  /\ 0 < ask.embedded /\ ask.embedded < Len(ask.all)
  /\ ask.embedCalls > 2

\* C22: without the credential, ask, summarize and flashcards (like upload)
\* fail before any call to the embedding or the completion service is
\* attempted.
C22_NoCallWithoutCredential ==
  ~env.apiKey
    => /\ ask.embedCalls = 0 /\ ask.completeCalls = 0
       /\ gen.completeCalls = 0
       /\ \A r \in Slots :
            (req[r].kind = "upload" /\ req[r].pc = "done") => req[r].resp.status = 400

\* C23: the text sent for a summary is the document's chunks in id order,
\* joined and cut, and never longer than maxChars; when no text survives the
\* request answers 400 and the completion service is not called.
C23_SummaryWithinCeiling ==
  LET at == FindDoc(disk.docs, gen.body.docId.id, 1)
      cap == MaxCharsOf(gen.body)
      joined == JoinChunks(disk.docs[at].chunks, 1)
  IN (gen.kind = "summarize" /\ gen.loaded /\ at # 0)
       => IF cap <= 0 \/ joined = EmptyStr
            THEN /\ gen.pc = "done" /\ gen.resp.status = 400
                 /\ gen.resp.error = "Document is empty"
                 /\ gen.completeCalls = 0
          ELSE /\ gen.completeCalls = 1
               /\ gen.text # EmptyStr
               /\ gen.text = SliceTo(joined, StrLen(gen.text))
               /\ StrLen(gen.text) <= cap

\* the model's content has the structure the handler asked for
WellFormed(content) ==
  content.json /\ content.top = "object" /\ content.flashcards.type = "list"

\* C24: a completion that is not the object asked for, with a list of
\* flashcards, is answered as a failure, never as a success with an empty
\* list.
C24_MalformedIsFailure ==
  (gen.kind = "flashcards" /\ gen.pc = "done" /\ gen.content # NoContent
     /\ ~WellFormed(gen.content))
    => gen.resp.status >= 500

\* the file holds a store within the ceiling
HoldsStore(f) == f.kind = "json" /\ 0 < f.bytes /\ f.bytes <= MAX_STORE_BYTES

MetaFields == {"id", "name", "chunkCount", "createdAt"}

\* C25: health neither loads nor writes the store; list, ask, summarize and
\* flashcards leave a store file that holds a store within the ceiling as it
\* is; a list response carries id, name, chunkCount and createdAt of every
\* document and nothing else.
C25_ReadOnly ==
  /\ [][HoldsStore(disk) => (disk' = disk /\ tmp' = tmp)]_vars
  /\ [][(gen.pc = "idle" /\ gen'.kind = "health")
          => (disk' = disk /\ tmp' = tmp /\ ~gen'.loaded)]_vars
  /\ [](\A r \in Slots :
          (req[r].kind = "list" /\ req[r].pc = "done" /\ req[r].resp.status = 200)
            => /\ Len(req[r].resp.docs) = Len(disk.docs)
               /\ \A i \in 1..Len(req[r].resp.docs) :
                    /\ DOMAIN req[r].resp.docs[i] = MetaFields
                    /\ req[r].resp.docs[i].id = disk.docs[i].id
                    /\ req[r].resp.docs[i].chunkCount = Len(disk.docs[i].chunks))

\* a list, an ask and a summary were answered from a store with documents
C25_Witness ==
  /\ HoldsStore(disk) /\ Len(disk.docs) > 1
  /\ \E r \in Slots : req[r].kind = "list" /\ req[r].pc = "done"
                        /\ Len(req[r].resp.docs) > 1
  /\ ask.pc = "done" /\ ask.resp.status = 200
  /\ gen.kind = "summarize" /\ gen.pc = "done" /\ gen.resp.status = 200

\* C26: deleting a stored document removes it from the store; deleting an
\* id the store does not hold answers not-found and leaves the store as it
\* is.
C26_DeleteRemoves ==
  (gen.kind = "delete" /\ gen.pc = "done")
    => IF gen.held
         THEN /\ gen.resp.status = 200
              /\ ~InSeq(gen.body.docId.id, DocIds(disk.docs))
       ELSE /\ gen.resp.status = 404
            /\ disk = lastWrite.new

\* the items at positions p.. of all are, for each document lo..hi of the
\* scope in turn, its chunks 0..took-1 in order
RECURSIVE PacksInOrder(_, _, _, _, _)
PacksInOrder(all, scope, lo, hi, p) ==
  IF lo > hi THEN TRUE
  ELSE IF lo = hi
    THEN LET d == scope[lo] IN
         /\ p + d.took - 1 <= Len(all)
         /\ \A j \in 1..d.took :
              all[p + j - 1].docId = d.id /\ all[p + j - 1].chunkId = j - 1
  ELSE LET mid == (lo + hi) \div 2 IN
       /\ PacksInOrder(all, scope, lo, mid, p)
       /\ PacksInOrder(all, scope, mid + 1, hi, p + ScopeTook(scope, lo, mid))

\* C27: limitScopeChunks gives one pack per document of the scope, in the
\* scope's order; a pack holds all chunks of its document when the scope has
\* at most MAX_CHUNKS_FOR_ASK chunks, and otherwise the document's first
\* min(length, max(1, floor(MAX_CHUNKS_FOR_ASK / N))) chunks.
C27_PacksArePrefixes ==
  Retrieving(ask)
    => LET N == Len(ask.scope)
           total == ScopeChunks(ask.scope, 1, N)
           perDoc == Max(1, MAX_CHUNKS_FOR_ASK \div N)
       IN /\ \A i \in 1..N :
               ask.scope[i].took = IF total <= MAX_CHUNKS_FOR_ASK THEN ask.scope[i].n
                                   ELSE Min(ask.scope[i].n, perDoc)
          /\ Len(ask.all) = ScopeTook(ask.scope, 1, N)
          /\ PacksInOrder(ask.all, ask.scope, 1, N, 1)

\* an answer drawn from a scope over the cap, to which every document gave
\* all its chunks but the last
C27_Witness ==
  /\ Answered200(ask)
  /\ Len(ask.scope) > 1
  /\ \A i \in 1..Len(ask.scope) : ask.scope[i].took = ask.scope[i].n - 1
  /\ Len(ask.all) < ScopeChunks(ask.scope, 1, Len(ask.scope))

\* C28: summarize and flashcards answer 400 to a missing docId and 404 to a
\* docId the store does not hold, without calling the completion service;
\* ask answers 400 to a question that is missing or not a string, before the
\* store is loaded and without calling a service.
C28_Validation ==
  /\ (gen.kind \in {"summarize", "flashcards"} /\ gen.pc # "idle"
        /\ ~gen.body.docId.given)
       => /\ gen.pc = "done" /\ gen.resp.status = 400
          /\ ~gen.loaded /\ gen.completeCalls = 0
  /\ (gen.kind \in {"summarize", "flashcards"} /\ gen.pc # "idle"
        /\ gen.body.docId.given /\ ~InSeq(gen.body.docId.id, DocIds(disk.docs)))
       => /\ gen.pc = "done" /\ gen.resp.status = 404
          /\ gen.completeCalls = 0
  /\ (ask.pc # "idle" /\ ask.body.question \in {"", NotAString})
       => /\ ask.pc = "done" /\ ask.resp.status = 400
          /\ ~ask.loaded /\ ask.embedCalls = 0 /\ ask.completeCalls = 0

\* a question that is not a string and a summary of a document the store
\* does not hold were both refused
C28_Witness ==
  /\ ask.pc = "done" /\ ask.body.question = NotAString /\ ask.resp.status = 400
  /\ gen.kind = "summarize" /\ gen.resp.status = 404
  /\ HoldsStore(disk) /\ Len(disk.docs) > 0

\* the chunk's text is not empty, has no blank at either end and fits a window
TidyChunk(c) ==
  /\ c.text # EmptyStr
  /\ ~IsWs(c.text[1]) /\ ~IsWs(c.text[Len(c.text)])
  /\ StrLen(c.text) <= MAX_CHARS_PER_CHUNK

TidyDocs(docs) ==
  \A i \in 1..Len(docs) :
    /\ Len(docs[i].chunks) >= 1
    /\ \A j \in 1..Len(docs[i].chunks) : TidyChunk(docs[i].chunks[j])

\* C30: every chunk of every stored document has a text that is not empty,
\* neither starts nor ends with whitespace and is at most MAX_CHARS_PER_CHUNK
\* long, and every stored document has at least one chunk.
C30_ChunksTidy == TidyDocs(disk.docs) /\ TidyDocs(tmp.docs)

\* an upload of a file with whitespace at both ends and a run of spaces
\* longer than two windows was stored: its first chunk is shorter than a
\* window, and its chunks are fewer than the windows the text spans
C30_Witness ==
  \E r \in Slots :
    /\ req[r].pc = "done" /\ req[r].resp.status = 200
    /\ req[r].files = <<FileGap>>
    /\ Len(req[r].resp.uploaded) = 1
    /\ \E i \in 1..Len(disk.docs) :
         /\ disk.docs[i].name = FileGap.name
         /\ Len(disk.docs[i].chunks) > 1
         /\ StrLen(disk.docs[i].chunks[1].text) < MAX_CHARS_PER_CHUNK
         /\ Len(disk.docs[i].chunks)
              < (StrLen(FileGap.text) - CHUNK_OVERLAP)
                  \div (MAX_CHARS_PER_CHUNK - CHUNK_OVERLAP) + 1

\* ------------------------------------------------------------ PDF properties
Settled(p) == p.outcome \in {"resolved", "rejected"}

\* C29: every PDF extraction is eventually settled, and settled once: what
\* it was settled with never changes.  The timer is not armed once the
\* extraction is settled.  When the timer fires the subprocess is killed, its
\* pipe closes and, unless the pipe fails, the extraction resolves.
C29_SettlesOnce ==
  /\ <>Settled(pdf)
  /\ [][Settled(pdf) => (pdf'.outcome = pdf.outcome /\ pdf'.chunks = pdf.chunks)]_vars
  /\ [](Settled(pdf) => pdf.timer # "armed")
  /\ [](pdf.timer = "fired" => (pdf.child # "running" /\ InSeq("SIGKILL", pdf.signals)))
  /\ (pdf.timer = "fired") ~> rs.closed
  /\ (pdf.timer = "fired") ~> (pdf.outcome = "resolved" \/ result.state = "rejected")

\* the timer fired on a subprocess that had written part of its output, and
\* the extraction resolved with the chunks of that part
C29_Witness ==
  /\ pdf.timer = "fired"
  /\ pdf.outcome = "resolved"
  /\ Len(pdf.chunks) > 0
  /\ rs.rest # EmptyStr /\ ~st.destroyed
  /\ pdf.settles = 1

\* ------------------------------------------------- extraction as a function
\* a streamed extraction has resolved after its source was read to the end
\* or until the stream was destroyed
StreamedOut ==
  /\ inp.path # "docx" /\ result.state = "resolved"
  /\ rs.rest = EmptyStr \/ st.destroyed

HasCr(text) == \E i \in 1..Len(text) : text[i].c = "cr"

\* C31 (as claimed): the chunk list of a streamed extraction depends on the
\* source text only: however the text was cut into pieces, a cut between a
\* carriage return and its line feed included, the list is the one that
\* reading it in pieces of STREAM_HWM characters gives.
C31_SplitIndependent ==
  StreamedOut => result.chunks = extractChunksFromTxtPath(inp.text)

\* C32 (as claimed): for a text without carriage returns, of any length, the
\* streaming path and the rich-document path give the same chunk list.
C32_PathsAgree ==
  (~HasCr(inp.text) /\ (StreamedOut \/ inp.path = "docx") /\ result.state = "resolved")
    => result.chunks = IF inp.path = "docx" THEN extractChunksFromTxtPath(inp.text)
                                            ELSE extractChunksFromDocxPath(inp.text)

\* ------------------------------------------------------- ask: the global cap
\* C33 (as claimed): whatever the number of documents in scope, the chunks
\* an ask request collects for the embedding service, and the chunks it has
\* had embedded, are at most MAX_CHUNKS_FOR_ASK.
C33_WithinGlobalCap ==
  /\ Len(ask.all) <= MAX_CHUNKS_FOR_ASK
  /\ ask.embedded <= MAX_CHUNKS_FOR_ASK

\* ------------------------------------------------------ uploads and the list
\* a list request that has answered
Listed(q) == q.kind = "list" /\ q.pc = "done" /\ q.resp.status = 200

\* C34 (as claimed): with requests handled one at a time, every document
\* that an upload response has reported is in the response of a list
\* request made afterwards, whatever requests came in between.
C34_UploadedStaysListed ==
  \A o \in Slots :
    (Listed(req[o]) /\ req[o].no = started)
      => \A id \in reported : InSeq(id, DocIds(req[o].resp.docs))

\* ------------------------------------------------ uploads that ingest nothing
\* an upload request that has answered, none of whose files was ingested
NoIngest(q) ==
  /\ Answered(q)
  /\ Len(q.files) > 0 /\ Len(q.made) <= Len(q.files)
  /\ Ingested(q, 1) = << >>

\* C35 (as claimed): after an upload in which no file was ingested, the
\* store file holds the documents it held just before the request saved,
\* also when another upload saved while the request was in progress.
C35_NoIngestKeepsList ==
  \A r \in Slots :
    (NoIngest(req[r]) /\ lastWrite.by = req[r].no /\ ~req[r].healed)
      => DocIds(disk.docs) = DocIds(lastWrite.old.docs)

\* C35 (amended): an upload in which no file was ingested and that was not
\* aborted answers 200 with an empty list and saves the store it loaded:
\* after its save the store file holds the documents its loadStore returned,
\* in order.  That is the list the file held before the save if the request
\* overlapped no other; the documents another upload saved between its load
\* and its save are no longer in the file.  An aborted upload saves nothing.
C35_NoIngestSavesSnapshot ==
  \A r \in Slots :
    LET q == req[r] IN
    /\ (NoIngest(q) /\ q.resp.status = 200)
         => /\ q.resp.uploaded = << >>
            /\ lastWrite.by = q.no
                 => /\ disk.kind = "json"
                    /\ DocIds(disk.docs) = SnapshotIds(q)
                    /\ \A i \in 1..Len(disk.docs) : disk.docs[i].id \notin q.clobbered
                    /\ (~q.overlap /\ ~q.healed)
                         => DocIds(disk.docs) = DocIds(lastWrite.old.docs)
    /\ (NoIngest(q) /\ q.resp.status # 200) => (lastWrite.by # q.no \/ q.healed)

\* an upload whose only file failed extraction saved after another upload
\* had saved a document, and the store file no longer holds that document
C35_Witness ==
  \E r \in Slots, o \in Slots :
    /\ NoIngest(req[r]) /\ req[r].resp.status = 200 /\ lastWrite.by = req[r].no
    /\ Uploaded(req[o]) /\ o # r /\ Len(req[o].out) = 1
    /\ req[o].out[1].id \in req[r].clobbered
    /\ req[o].out[1].id \in reported
    /\ ~InSeq(req[o].out[1].id, DocIds(disk.docs))
    /\ Len(disk.docs) = 1

\* ----------------------------------------------------------- quiz properties
\* C36: while the quiz is submitted, a selectQuizAnswer call changes neither
\* the question list nor any selectedIndex, and the quiz stays submitted
\* until resetQuiz or generateQuiz is called.
C36_LockedAfterSubmit ==
  /\ [][(quiz.quizSubmitted /\ quiz'.lastOp = "selectQuizAnswer")
          => (quiz'.quizQuestions = quiz.quizQuestions /\ quiz'.quizSubmitted)]_vars
  /\ [][(quiz.quizSubmitted /\ ~quiz'.quizSubmitted)
          => quiz'.lastOp \in {"resetQuiz", "generateQuiz"}]_vars

\* an option was clicked on a submitted quiz whose questions all carry
\* another option
C36_Witness ==
  /\ quiz.quizSubmitted /\ quiz.lastOp = "selectQuizAnswer"
  /\ Len(quiz.quizQuestions) = MaxQuestions
  /\ \A i \in 1..Len(quiz.quizQuestions) :
       quiz.quizQuestions[i].selectedIndex = 0 /\ quiz.quizQuestions[i].answered

\* C37 (as claimed): whenever quizSubmitted is true the question list is not
\* empty and every question has a selected answer.
C37_SubmittedMeansAnswered ==
  quiz.quizSubmitted
    => /\ Len(quiz.quizQuestions) > 0
       /\ \A i \in 1..Len(quiz.quizQuestions) :
            quiz.quizQuestions[i].selectedIndex # Undefined

\* ------------------------------------------------------- glossary properties
\* C38 (as claimed): whenever no glossary request is on the way, the loading
\* flag is false and a glossary that is not empty holds the terms returned
\* to the latest request, which are those of selectedDocId.
C38_LatestGlossary ==
  gloss.pending = {}
    => /\ ~gloss.glossaryLoading
       /\ gloss.glossary # NoTerms
            => /\ gloss.glossary.docId = gloss.selectedDocId
               /\ gloss.glossary.by = gloss.issued
====
